---- MODULE Spec2Model ----
(***************************************************************************)
(* Workforce -> Dynamics time-tracking converter.                          *)
(*                                                                         *)
(* The model covers the date/time parsing and weekly aggregation pipeline  *)
(* (excelUtils.ts, dateUtils.ts, timeUtils.ts, transformUtils.ts) and the  *)
(* application state of App.tsx.                                           *)
(*                                                                         *)
(* Representation of JavaScript values                                     *)
(*   number      [num |-> n, den |-> d]  an exact rational in lowest terms *)
(*   NaN         [nan |-> TRUE]                                            *)
(*   null        [null |-> TRUE]                                           *)
(*   string      [str |-> <<"c1", "c2", ...>>]  a sequence of characters   *)
(*   Date/Dayjs  [time |-> m]  minutes of local wall-clock time since      *)
(*               1970-01-01 00:00 (timezone-naive), or [invalid |-> TRUE]  *)
(*   ISO date    [y |-> 2025, m |-> 10, d |-> 27]  the text 'YYYY-MM-DD'   *)
(***************************************************************************)
EXTENDS Integers, Sequences, FiniteSets, TLC

VARIABLES
    pc,               \* position of the function call under analysis
    args,             \* arguments of the function call under analysis
    ret,              \* value returned by the function call under analysis
    parsedRows,       \* App state: useState<ParsedRow[]>
    fileMeta,         \* App state: useState('')
    weekStart,        \* App state: useState<string | null>
    weekInfo,         \* App state: useState<WeekInfo | null>
    warningMessage,   \* App state: useState<string | null>
    transformedRows,  \* App state: useState<DynamicsRow[]>
    viewMode,         \* App state: 'simplified' | 'raw'
    filtered,         \* handleTransform: the list last passed to transformToDynamics
    pending,          \* handleFileChange: the files whose readFile is awaited
    selected,         \* the file input: the file of the last change event
    alerts,           \* the number of alert() boxes shown
    lastDownload,     \* downloadBlob: the last file handed to the browser
    today             \* the local calendar day of the browser clock (days since 1970-01-01)

vars == <<pc, args, ret, parsedRows, fileMeta, weekStart, weekInfo, warningMessage,
          transformedRows, viewMode, filtered, pending, selected, alerts, lastDownload, today>>

appVars == <<parsedRows, fileMeta, weekStart, weekInfo, warningMessage,
             transformedRows, viewMode, filtered, pending, selected, alerts, lastDownload, today>>

callVars == <<pc, args, ret>>

----------------------------------------------------------------------------
(* JavaScript values *)

Null == [null |-> TRUE]

NaN == [nan |-> TRUE]

EmptyStr == [str |-> <<>>]

InvalidDate == [invalid |-> TRUE]

Str(s) == [str |-> s]

DateAt(m) == [time |-> m]

IsNum(x) == DOMAIN x = {"num", "den"}

IsStr(x) == DOMAIN x = {"str"}

IsDate(x) == DOMAIN x = {"time"} \/ DOMAIN x = {"invalid"}

IsValidDate(x) == DOMAIN x = {"time"}

Abs(n) == IF n < 0 THEN -n ELSE n

RECURSIVE GCD(_, _)
GCD(a, b) == IF b = 0 THEN a ELSE GCD(b, a % b)

\* the rational n/d (d > 0) in lowest terms
Rat(n, d) ==
    LET g == GCD(Abs(n), d)
    IN  [num |-> n \div g, den |-> d \div g]

Num(n) == [num |-> n, den |-> 1]

RatAdd(a, b) == Rat(a.num * b.den + b.num * a.den, a.den * b.den)

RatLess(a, b) == a.num * b.den < b.num * a.den

RatMax(a, b) == IF RatLess(a, b) THEN b ELSE a

\* Math.round: the nearest integer, a tie going up
MathRound(x) == (2 * x.num + x.den) \div (2 * x.den)

\* Number(n.toFixed(2)) for n >= 0: the nearest multiple of 1/100, a tie going up
ToFixed2(n) == Rat(MathRound(Rat(100 * n.num, n.den)), 100)

----------------------------------------------------------------------------
(* Strings and regular expressions *)

Digits == {"0", "1", "2", "3", "4", "5", "6", "7", "8", "9"}

DigitValue(c) ==
    CASE c = "0" -> 0 [] c = "1" -> 1 [] c = "2" -> 2 [] c = "3" -> 3
      [] c = "4" -> 4 [] c = "5" -> 5 [] c = "6" -> 6 [] c = "7" -> 7
      [] c = "8" -> 8 [] c = "9" -> 9

\* /^\d+$/ : a non-empty run of digits
AllDigits(s) == Len(s) > 0 /\ \A i \in 1..Len(s) : s[i] \in Digits

\* parseInt(s, 10) for a run of digits
RECURSIVE ParseInt(_)
ParseInt(s) ==
    IF Len(s) = 0 THEN 0
    ELSE 10 * ParseInt(SubSeq(s, 1, Len(s) - 1)) + DigitValue(s[Len(s)])

\* String.prototype.trim, and the \s* at both ends of a pattern
RECURSIVE Trim(_)
Trim(s) ==
    IF Len(s) > 0 /\ s[1] = " " THEN Trim(Tail(s))
    ELSE IF Len(s) > 0 /\ s[Len(s)] = " " THEN Trim(SubSeq(s, 1, Len(s) - 1))
    ELSE s

\* s.replace(from, to) with a one-character text: the first occurrence only
ReplaceFirst(s, from, to) ==
    IF \E i \in 1..Len(s) : s[i] = from
    THEN LET i == CHOOSE j \in 1..Len(s) :
                     s[j] = from /\ \A k \in 1..(j - 1) : s[k] # from
         IN  [s EXCEPT ![i] = to]
    ELSE s

\* the positions of the character c in s
Positions(s, c) == {i \in 1..Len(s) : s[i] = c}

----------------------------------------------------------------------------
(* timeUtils.ts *)

MinutesPerDay == 24 * 60

\* the body of calculateHours with the overnight branch never taken
calculateHours_NoOvernight(startMinutes, endMinutes) ==
    IF startMinutes = Null \/ endMinutes = Null
    THEN Num(0)
    ELSE IF startMinutes = NaN \/ endMinutes = NaN
    THEN NaN
    ELSE RatMax(Num(0), Rat(endMinutes.num - startMinutes.num, 60))

calculateHours(startMinutes, endMinutes) ==
    IF startMinutes = Null \/ endMinutes = Null
    THEN Num(0)
    ELSE IF startMinutes = NaN \/ endMinutes = NaN
    THEN NaN    \* NaN - n is NaN, NaN < 0 is false, Math.max(0, NaN) is NaN
    ELSE LET d0   == endMinutes.num - startMinutes.num
             diff == IF d0 < 0 THEN d0 + MinutesPerDay ELSE d0
         IN  RatMax(Num(0), Rat(diff, 60))

----------------------------------------------------------------------------
(* Calendar arithmetic of the JavaScript Date object and of dayjs *)

\* days from 1970-01-01 to the proleptic Gregorian date y-m-d (m in 1..12)
DaysFromCivil(y, m, d) ==
    LET yy  == IF m <= 2 THEN y - 1 ELSE y
        era == yy \div 400
        yoe == yy - era * 400
        mp  == IF m > 2 THEN m - 3 ELSE m + 9
        doy == (153 * mp + 2) \div 5 + d - 1
        doe == yoe * 365 + yoe \div 4 - yoe \div 100 + doy
    IN  era * 146097 + doe - 719468

\* the calendar date [y, m, d] of the day n days after 1970-01-01
CivilFromDays(n) ==
    LET z   == n + 719468
        era == z \div 146097
        doe == z - era * 146097
        yoe == (doe - doe \div 1460 + doe \div 36524 - doe \div 146096) \div 365
        doy == doe - (365 * yoe + yoe \div 4 - yoe \div 100)
        mp  == (5 * doy + 2) \div 153
        d   == doy - (153 * mp + 2) \div 5 + 1
        m   == IF mp < 10 THEN mp + 3 ELSE mp - 9
        y   == yoe + era * 400 + (IF m <= 2 THEN 1 ELSE 0)
    IN  [y |-> y, m |-> m, d |-> d]

\* new Date(year, monthIndex, day): local midnight; a year in 0..99 means
\* 1900 + year, and a day or month out of range rolls over into the
\* neighbouring month or year
NewDate(year, monthIndex, day) ==
    LET full == IF year >= 0 /\ year <= 99 THEN 1900 + year ELSE year
        y    == full + monthIndex \div 12
        m    == (monthIndex % 12) + 1
    IN  DateAt((DaysFromCivil(y, m, 1) + day - 1) * MinutesPerDay)

Iso(y, m, d) == [y |-> y, m |-> m, d |-> d]

IsIso(x) == DOMAIN x = {"y", "m", "d"}

\* dayjs(x) for an ISO date text, a Date, '' or null
dayjs(x) ==
    IF IsIso(x) THEN NewDate(x.y, x.m - 1, x.d)
    ELSE IF IsValidDate(x) THEN x
    ELSE InvalidDate

\* d.format('YYYY-MM-DD')
FormatIso(d) == CivilFromDays(d.time \div MinutesPerDay)

\* d.add(n, 'day')
AddDays(d, n) == IF IsValidDate(d) THEN DateAt(d.time + n * MinutesPerDay) ELSE d

\* comparisons with an invalid date compare NaN and are false
isSame(a, b) == IsValidDate(a) /\ IsValidDate(b) /\ a.time = b.time

isAfter(a, b) == IsValidDate(a) /\ IsValidDate(b) /\ a.time > b.time

isBefore(a, b) == IsValidDate(a) /\ IsValidDate(b) /\ a.time < b.time

\* a.diff(b, 'day'): whole days, truncated toward zero; NaN for an invalid date
DiffDays(a, b) ==
    IF ~IsValidDate(a) \/ ~IsValidDate(b) THEN NaN
    ELSE LET ms == a.time - b.time
         IN  Num(IF ms < 0 THEN -((-ms) \div MinutesPerDay) ELSE ms \div MinutesPerDay)

\* d.isoWeekday(): 1 = Monday .. 7 = Sunday
isoWeekday(d) == ((d.time \div MinutesPerDay + 3) % 7) + 1

----------------------------------------------------------------------------
(* dateUtils.ts *)

\* the window test with the upper bound included
InWindow_ClosedEnd(date, start, end) ==
    isSame(date, start) \/ (isAfter(date, start) /\ ~isAfter(date, end))

InWindow(date, start, end) ==
    isSame(date, start) \/ (isAfter(date, start) /\ isBefore(date, end))

\* a filter that, without a week start, keeps every row with a valid date
filterRowsToWeek_NoWeekKeepsAll(rows, weekStartIso) ==
    LET Pair(r) == IF r.date = Null THEN Null
                   ELSE IF IsValidDate(dayjs(r.date))
                        THEN [row |-> r, date |-> dayjs(r.date)]
                        ELSE Null
        mapped == [i \in 1..Len(rows) |-> Pair(rows[i])]
        NotNull(item) == item # Null
    IN  IF weekStartIso = EmptyStr \/ weekStartIso = Null
        THEN SelectSeq(mapped, NotNull)
        ELSE LET start == dayjs(weekStartIso)
                 end   == AddDays(start, 7)
                 Inside(item) == InWindow(item.date, start, end)
             IN  SelectSeq(SelectSeq(mapped, NotNull), Inside)

\* a filter whose window is a day too long
filterRowsToWeek_EightDays(rows, weekStartIso) ==
    IF weekStartIso = EmptyStr \/ weekStartIso = Null
    THEN <<>>
    ELSE LET start == dayjs(weekStartIso)
             end   == AddDays(start, 8)
             Pair(r) == IF r.date = Null THEN Null
                        ELSE IF IsValidDate(dayjs(r.date))
                             THEN [row |-> r, date |-> dayjs(r.date)]
                             ELSE Null
             mapped == [i \in 1..Len(rows) |-> Pair(rows[i])]
             NotNull(item) == item # Null
             Inside(item) == InWindow(item.date, start, end)
         IN  SelectSeq(SelectSeq(mapped, NotNull), Inside)

filterRowsToWeek(rows, weekStartIso) ==
    IF weekStartIso = EmptyStr \/ weekStartIso = Null
    THEN <<>>
    ELSE LET start == dayjs(weekStartIso)
             end   == AddDays(start, 7)
             Pair(r) == IF r.date = Null THEN Null
                        ELSE IF IsValidDate(dayjs(r.date))
                             THEN [row |-> r, date |-> dayjs(r.date)]
                             ELSE Null
             mapped == [i \in 1..Len(rows) |-> Pair(rows[i])]
             NotNull(item) == item # Null
             Inside(item) == InWindow(item.date, start, end)
         IN  SelectSeq(SelectSeq(mapped, NotNull), Inside)

\* d.isoWeekday(1): the Monday of the ISO week of d, at the time of day of d
ToMonday(d) == DateAt(d.time - (isoWeekday(d) - 1) * MinutesPerDay)

\* a setWeekStartFromDate that returns the day itself
setWeekStartFromDate_AsIs(date) ==
    LET d == dayjs(date)
    IN  IF ~IsValidDate(d) THEN Null ELSE FormatIso(d)

\* setWeekStartFromDate(date) for an ISO date text
setWeekStartFromDate(date) ==
    LET d == dayjs(date)
    IN  IF ~IsValidDate(d) THEN Null
        ELSE FormatIso(IF isoWeekday(d) = 1 THEN d ELSE ToMonday(d))

\* d.isoWeekYear() and d.isoWeek(): the year and the week of the Thursday
\* of the ISO week of d
isoWeekYear(d) == CivilFromDays(ToMonday(d).time \div MinutesPerDay + 3).y

isoWeek(d) ==
    LET thursday == ToMonday(d).time \div MinutesPerDay + 3
    IN  (thursday - DaysFromCivil(isoWeekYear(d), 1, 1)) \div 7 + 1

getWeekInfo(dateStr) ==
    IF dateStr = Null \/ dateStr = EmptyStr THEN Null
    ELSE IF ~IsValidDate(dayjs(dateStr)) THEN Null
    ELSE [weekNum |-> isoWeek(dayjs(dateStr)), year |-> isoWeekYear(dayjs(dateStr))]

\* getCurrentWeekMonday(), now being the value of dayjs()
getCurrentWeekMonday(now) ==
    FormatIso(IF isoWeekday(now) = 1 THEN now ELSE ToMonday(now))

getValidDates(rows) ==
    LET ToDayjs(r) == IF r.date = Null THEN Null ELSE dayjs(r.date)
        mapped == [i \in 1..Len(rows) |-> ToDayjs(rows[i])]
        Valid(d) == d # Null /\ IsValidDate(d)
    IN  SelectSeq(mapped, Valid)

\* a check that warns about a file without any valid date as well
checkCurrentWeekInFile_NoDatesWarn(rows, now) ==
    LET currentMonday == getCurrentWeekMonday(now)
        dates     == getValidDates(rows)
        weekStartD == dayjs(currentMonday)
        weekEnd   == AddDays(weekStartD, 7)
        hasCurrentWeek == \E i \in 1..Len(dates) : InWindow(dates[i], weekStartD, weekEnd)
    IN  IF hasCurrentWeek THEN [hasCurrentWeek |-> TRUE, warningMessage |-> Null]
        ELSE [hasCurrentWeek |-> FALSE,
              warningMessage |-> [warning |-> getWeekInfo(currentMonday)]]

\* a check that reports the current week for every file with a valid date
checkCurrentWeekInFile_AlwaysCurrent(rows, now) ==
    LET dates == getValidDates(rows)
    IN  IF Len(dates) = 0 THEN [hasCurrentWeek |-> FALSE, warningMessage |-> Null]
        ELSE [hasCurrentWeek |-> TRUE, warningMessage |-> Null]

\* checkCurrentWeekInFile(rows), now being the value of dayjs()
checkCurrentWeekInFile(rows, now) ==
    LET currentMonday == getCurrentWeekMonday(now)
        dates     == getValidDates(rows)
        weekStartD == dayjs(currentMonday)
        weekEnd   == AddDays(weekStartD, 7)
        hasCurrentWeek == \E i \in 1..Len(dates) : InWindow(dates[i], weekStartD, weekEnd)
    IN  IF Len(dates) = 0 THEN [hasCurrentWeek |-> FALSE, warningMessage |-> Null]
        ELSE IF hasCurrentWeek THEN [hasCurrentWeek |-> TRUE, warningMessage |-> Null]
        ELSE [hasCurrentWeek |-> FALSE,
              \* the warning text embeds the ISO year and week of today
              warningMessage |-> [warning |-> getWeekInfo(currentMonday)]]

----------------------------------------------------------------------------
(* transformUtils.ts *)

HOURS_COLS ==
    <<"HOURS", "Hours2_", "Hours3_", "Hours4_", "Hours5_", "Hours6_", "Hours7_">>

COMMENT_COLS ==
    <<"EXTERNALCOMMENTS", "ExternalComments2_", "ExternalComments3_",
      "ExternalComments4_", "ExternalComments5_", "ExternalComments6_",
      "ExternalComments7_">>

\* a header list with the comment columns before the hours columns
DYNAMICS_HEADERS_CommentsFirst ==
    <<"LineNum", "ProjectDataAreaId", "ProjId", "ACTIVITYNUMBER">>
        \o COMMENT_COLS \o HOURS_COLS

DYNAMICS_HEADERS ==
    <<"LineNum", "ProjectDataAreaId", "ProjId", "ACTIVITYNUMBER">>
        \o HOURS_COLS \o COMMENT_COLS

\* a string constant of the program, as it is written in the source
Text(s) == [text |-> s]

\* an index that wraps around the week instead of stopping at its ends
ClampDayIndex_Wrap(n) ==
    IF n = NaN THEN NaN
    ELSE Num(n.num % 7)

\* Math.max(0, Math.min(6, n)); NaN stays NaN
ClampDayIndex(n) ==
    IF n = NaN THEN NaN
    ELSE Num(IF n.num < 0 THEN 0 ELSE IF n.num > 6 THEN 6 ELSE n.num)

\* a normalize that cuts the hours off after 2 decimals
normalize_Truncate(n) == Rat((100 * n.num) \div n.den, 100)

normalize(n) == ToFixed2(n)

\* the loop body with the day total overwritten instead of increased
AddRow_Overwrite(totalsByDay, r, weekStartD) ==
    LET dayIndex == ClampDayIndex(DiffDays(r.date, weekStartD))
        hours    == calculateHours(r.row.startTimeMinutes, r.row.endTimeMinutes)
    IN  IF IsNum(hours) /\ RatLess(Num(0), hours) /\ IsNum(dayIndex)
        THEN [totalsByDay EXCEPT ![dayIndex.num] = hours]
        ELSE totalsByDay

\* the loop body with every row rounded to 2 decimals before it is added
AddRow_RoundEach(totalsByDay, r, weekStartD) ==
    LET dayIndex == ClampDayIndex(DiffDays(r.date, weekStartD))
        hours    == calculateHours(r.row.startTimeMinutes, r.row.endTimeMinutes)
    IN  IF IsNum(hours) /\ RatLess(Num(0), hours) /\ IsNum(dayIndex)
        THEN [totalsByDay EXCEPT ![dayIndex.num] = RatAdd(@, normalize(hours))]
        ELSE totalsByDay

\* the loop body with the hours added to the slot after that of the row
AddRow_NextSlot(totalsByDay, r, weekStartD) ==
    LET dayIndex == ClampDayIndex(DiffDays(r.date, weekStartD))
        hours    == calculateHours(r.row.startTimeMinutes, r.row.endTimeMinutes)
    IN  IF IsNum(hours) /\ RatLess(Num(0), hours) /\ IsNum(dayIndex)
        THEN [totalsByDay EXCEPT ![(dayIndex.num + 1) % 7] = RatAdd(@, hours)]
        ELSE totalsByDay

\* the loop body with hours added to a day only while the day is empty
AddRow_FirstOfDay(totalsByDay, r, weekStartD) ==
    LET dayIndex == ClampDayIndex(DiffDays(r.date, weekStartD))
        hours    == calculateHours(r.row.startTimeMinutes, r.row.endTimeMinutes)
    IN  IF /\ IsNum(hours) /\ RatLess(Num(0), hours) /\ IsNum(dayIndex)
           /\ totalsByDay[dayIndex.num] = Num(0)
        THEN [totalsByDay EXCEPT ![dayIndex.num] = RatAdd(@, hours)]
        ELSE totalsByDay

\* the body of the first loop of transformToDynamics, for one row
AddRow(totalsByDay, r, weekStartD) ==
    LET dayIndex == ClampDayIndex(DiffDays(r.date, weekStartD))
        hours    == calculateHours(r.row.startTimeMinutes, r.row.endTimeMinutes)
    IN  IF IsNum(hours) /\ RatLess(Num(0), hours) /\ IsNum(dayIndex)
        THEN [totalsByDay EXCEPT ![dayIndex.num] = RatAdd(@, hours)]
        ELSE totalsByDay   \* totalsByDay[NaN] is not a day slot

\* the first loop of transformToDynamics, from row i on
RECURSIVE SumRows(_, _, _, _)
SumRows(rows, weekStartD, i, totalsByDay) ==
    IF i > Len(rows) THEN totalsByDay
    ELSE SumRows(rows, weekStartD, i + 1, AddRow(totalsByDay, rows[i], weekStartD))

\* the second loop of transformToDynamics
NormalizeTotals(totalsByDay) ==
    [i \in 0..6 |-> IF RatLess(Num(0), totalsByDay[i])
                    THEN normalize(totalsByDay[i])
                    ELSE Num(0)]

BASE_META == [ProjectDataAreaId |-> Text("110"), ProjId |-> Text("11011127")]

HeaderSet == {DYNAMICS_HEADERS[k] : k \in 1..Len(DYNAMICS_HEADERS)}

\* the keys row1 and row2 are given: those of the object literal, then
\* HOURS_COLS[i] and COMMENT_COLS[i] for i = 0..6
RowKeys ==
    {"LineNum", "ACTIVITYNUMBER"} \cup DOMAIN BASE_META
        \cup {HOURS_COLS[i + 1] : i \in 0..6} \cup {COMMENT_COLS[i + 1] : i \in 0..6}

\* the day index i with cols[i] = h (cols indexed from 0 as in the source), or -1
ColIndex(cols, h) ==
    IF \E i \in 0..6 : cols[i + 1] = h
    THEN CHOOSE i \in 0..6 : cols[i + 1] = h
    ELSE -1

\* row1: the metadata, every day column '', then hours and comment of the
\* days whose total is > 0
Row1(totalsByDay) ==
    [h \in RowKeys |->
        IF h = "LineNum" THEN Text("1.0000000000000000")
        ELSE IF h = "ACTIVITYNUMBER" THEN Text("A110015929")
        ELSE IF h \in DOMAIN BASE_META THEN BASE_META[h]
        ELSE IF ColIndex(HOURS_COLS, h) >= 0
        THEN IF RatLess(Num(0), totalsByDay[ColIndex(HOURS_COLS, h)])
             THEN normalize(totalsByDay[ColIndex(HOURS_COLS, h)])
             ELSE Text("")
        ELSE IF RatLess(Num(0), totalsByDay[ColIndex(COMMENT_COLS, h)])
             THEN Text("Development")
             ELSE Text("")]

\* row2 with the lunch cells of every day filled as soon as any day has work
Row2_AnyDay(totalsByDay) ==
    [h \in RowKeys |->
        IF h = "LineNum" THEN Text("2.0000000000000000")
        ELSE IF h = "ACTIVITYNUMBER" THEN Text("A110015932")
        ELSE IF h \in DOMAIN BASE_META THEN BASE_META[h]
        ELSE IF ColIndex(HOURS_COLS, h) >= 0
        THEN IF \E i \in 0..6 : RatLess(Num(0), totalsByDay[i])
             THEN Rat(1, 2)
             ELSE Text("")
        ELSE IF \E i \in 0..6 : RatLess(Num(0), totalsByDay[i])
             THEN Text("Lunsj")
             ELSE Text("")]

\* row2 with the lunch cells filled whatever the work total of the day is
Row2_EveryDay(totalsByDay) ==
    [h \in RowKeys |->
        IF h = "LineNum" THEN Text("2.0000000000000000")
        ELSE IF h = "ACTIVITYNUMBER" THEN Text("A110015932")
        ELSE IF h \in DOMAIN BASE_META THEN BASE_META[h]
        ELSE IF ColIndex(HOURS_COLS, h) >= 0 THEN Rat(1, 2)
        ELSE Text("Lunsj")]

\* row2: the metadata, every day column '', then 0.5 and 'Lunsj' for the
\* days whose work total is > 0
Row2(totalsByDay) ==
    [h \in RowKeys |->
        IF h = "LineNum" THEN Text("2.0000000000000000")
        ELSE IF h = "ACTIVITYNUMBER" THEN Text("A110015932")
        ELSE IF h \in DOMAIN BASE_META THEN BASE_META[h]
        ELSE IF ColIndex(HOURS_COLS, h) >= 0
        THEN IF RatLess(Num(0), totalsByDay[ColIndex(HOURS_COLS, h)])
             THEN Rat(1, 2)
             ELSE Text("")
        ELSE IF RatLess(Num(0), totalsByDay[ColIndex(COMMENT_COLS, h)])
             THEN Text("Lunsj")
             ELSE Text("")]

\* transformToDynamics returning the lunch row first
transformToDynamics_LunchFirst(rows, weekStartIso) ==
    LET weekStartD  == dayjs(weekStartIso)
        summed      == SumRows(rows, weekStartD, 1, [i \in 0..6 |-> Num(0)])
        totalsByDay == NormalizeTotals(summed)
    IN  <<Row2(totalsByDay), Row1(totalsByDay)>>

transformToDynamics(rows, weekStartIso) ==
    LET weekStartD  == dayjs(weekStartIso)
        summed      == SumRows(rows, weekStartD, 1, [i \in 0..6 |-> Num(0)])
        totalsByDay == NormalizeTotals(summed)
    IN  <<Row1(totalsByDay), Row2(totalsByDay)>>

----------------------------------------------------------------------------
(* excelUtils.ts *)

\* /^\s*(\d{1,2})\.(\d{1,2})\.(\d{2}|\d{4})\s*$/ : the three groups, or <<>>
MatchDottedDate(s) ==
    LET t    == Trim(s)
        dots == Positions(t, ".")
    IN  IF Cardinality(dots) # 2 THEN <<>>
        ELSE LET p1 == CHOOSE i \in dots : \A j \in dots : i <= j
                 p2 == CHOOSE i \in dots : \A j \in dots : j <= i
                 g1 == SubSeq(t, 1, p1 - 1)
                 g2 == SubSeq(t, p1 + 1, p2 - 1)
                 g3 == SubSeq(t, p2 + 1, Len(t))
             IN  IF /\ AllDigits(g1) /\ Len(g1) <= 2
                    /\ AllDigits(g2) /\ Len(g2) <= 2
                    /\ AllDigits(g3) /\ Len(g3) \in {2, 4}
                 THEN <<g1, g2, g3>>
                 ELSE <<>>

isLeapYear(year) == (year % 4 = 0 /\ year % 100 # 0) \/ year % 400 = 0

monthLengths(year) ==
    <<31, IF isLeapYear(year) THEN 29 ELSE 28, 31, 30, 31, 30, 31, 31, 30, 31, 30, 31>>

\* the dotted-date branch of parseExcelDate, for the groups m of a match
ParseDottedDate(m) ==
    LET day   == ParseInt(m[1])
        month == ParseInt(m[2])
        year  == IF Len(m[3]) = 2 THEN 2000 + ParseInt(m[3]) ELSE ParseInt(m[3])
    IN  IF month < 1 \/ month > 12 THEN Null
        ELSE IF day < 1 THEN Null
        ELSE IF day > monthLengths(year)[month] THEN Null
        ELSE NewDate(year, month - 1, day)

\* ExcelJS.Workbook.excelDateToJsDate(v): serial day 25569 is 1970-01-01
excelDateToJsDate(v) ==
    DateAt((v.num \div v.den - 25569) * MinutesPerDay
           + ((v.num % v.den) * MinutesPerDay) \div v.den)

\* /^\d{4}-\d{2}-\d{2}$/ with a month and a day that exist
IsIsoDateText(s) ==
    /\ Len(s) = 10
    /\ s[5] = "-" /\ s[8] = "-"
    /\ AllDigits(SubSeq(s, 1, 4)) /\ AllDigits(SubSeq(s, 6, 7)) /\ AllDigits(SubSeq(s, 9, 10))
    /\ ParseInt(SubSeq(s, 6, 7)) \in 1..12
    /\ ParseInt(SubSeq(s, 9, 10)) \in
           1..monthLengths(ParseInt(SubSeq(s, 1, 4)))[ParseInt(SubSeq(s, 6, 7))]

\* new Date(text): a date-only ISO text is midnight UTC of that day; the
\* local zone of the model is UTC.  Any other text the analysis draws is no
\* date text ('abc', '25:00', ...) and gives an Invalid Date.
GenericDateParse(s) ==
    IF IsIsoDateText(s)
    THEN DateAt(DaysFromCivil(ParseInt(SubSeq(s, 1, 4)), ParseInt(SubSeq(s, 6, 7)),
                              ParseInt(SubSeq(s, 9, 10))) * MinutesPerDay)
    ELSE InvalidDate

parseExcelDate(value) ==
    IF value = Null \/ value = EmptyStr THEN Null
    ELSE IF IsDate(value) THEN (IF IsValidDate(value) THEN value ELSE Null)
    ELSE IF value = NaN THEN Null     \* excelDateToJsDate(NaN) is an Invalid Date
    ELSE IF IsNum(value) THEN excelDateToJsDate(value)
    ELSE IF IsStr(value) /\ MatchDottedDate(value.str) # <<>>
    THEN ParseDottedDate(MatchDottedDate(value.str))
    ELSE IF IsStr(value) /\ IsValidDate(GenericDateParse(value.str))
    THEN GenericDateParse(value.str)
    ELSE Null                         \* new Date(value) is an Invalid Date

\* /^\s*(\d{1,2})[.:](\d{2})\s*$/ : the two groups, or <<>>
MatchHourMinute(s) ==
    LET t == Trim(s)
        n == Len(t)
    IN  IF /\ n \in {4, 5}
           /\ t[n - 2] \in {".", ":"}
           /\ AllDigits(SubSeq(t, 1, n - 3))
           /\ AllDigits(SubSeq(t, n - 1, n))
        THEN <<SubSeq(t, 1, n - 3), SubSeq(t, n - 1, n)>>
        ELSE <<>>

\* /^\s*(\d{1,2})\s*$/ : the group, or <<>>
MatchHour(s) ==
    LET t == Trim(s)
    IN  IF AllDigits(t) /\ Len(t) <= 2 THEN <<t>> ELSE <<>>

\* the range checks and the result of the string branch of parseExcelTime
MinutesOf_NoHourCheck(hours, minutes) ==
    IF minutes < 0 \/ minutes > 59 THEN Null
    ELSE Num(hours * 60 + minutes)

MinutesOf(hours, minutes) ==
    IF hours < 0 \/ hours > 23 THEN Null
    ELSE IF minutes < 0 \/ minutes > 59 THEN Null
    ELSE Num(hours * 60 + minutes)

\* the string branch of parseExcelTime
ParseTimeText(value) ==
    LET raw        == Trim(value)
        normalized == ReplaceFirst(raw, ",", ".")
    IN  IF raw = <<>> THEN Null
        ELSE IF MatchHourMinute(normalized) # <<>>
        THEN MinutesOf(ParseInt(MatchHourMinute(normalized)[1]),
                       ParseInt(MatchHourMinute(normalized)[2]))
        ELSE IF MatchHour(normalized) # <<>>
        THEN MinutesOf(ParseInt(MatchHour(normalized)[1]), 0)
        ELSE Null

\* value.getHours() * 60 + value.getMinutes(); NaN for an Invalid Date
MinuteOfDay(d) == IF IsValidDate(d) THEN Num(d.time % MinutesPerDay) ELSE NaN

\* any other cell value: a boolean, a formula or rich-text object
OtherValue == [other |-> TRUE]

parseExcelTime(value) ==
    IF value = Null \/ value = EmptyStr THEN Null
    ELSE IF IsDate(value) THEN MinuteOfDay(value)
    ELSE IF value = NaN THEN Null     \* excelDateToJsDate(NaN) is an Invalid Date
    ELSE IF IsNum(value)
    THEN IF ~RatLess(value, Num(0)) /\ ~RatLess(Num(1), value)
         THEN Num(MathRound(Rat(value.num * 1440, value.den)))
         ELSE MinuteOfDay(excelDateToJsDate(value))
    ELSE IF ~IsStr(value) THEN Null
    ELSE ParseTimeText(value.str)

\* XLSX.SSF.parse_date_code(v), the fields H and M of its result: the whole
\* seconds of the day fraction, one more when less than 0.0001 s is missing
\* (a full day then counts as the next date), split into hours and minutes;
\* null for a negative serial and beyond 9999-12-31
parse_date_code(v) ==
    IF RatLess(v, Num(0)) \/ v.num \div v.den > 2958465
       \/ (v.num \div v.den = 2958465 /\ v.num % v.den > 0) THEN Null
    ELSE LET \* 86400 * (v - date) in two factors, 240 * 360, to stay in 32 bits
             first  == 240 * (v.num % v.den)
             second == 360 * (first % v.den)
             T      == 360 * (first \div v.den) + second \div v.den
             time   == IF 10000 * (second % v.den) > 9999 * v.den THEN T + 1 ELSE T
             ofDay  == time % 86400
         IN  [H |-> ofDay \div 3600, M |-> (ofDay \div 60) % 60]

\* parseExcelTime of the xlsx-based excelUtils
parseExcelTimeXlsx(value) ==
    IF value = Null \/ value = EmptyStr THEN Null
    ELSE IF value = NaN THEN Null     \* H and M are NaN, and NaN >= 0 is false
    ELSE IF IsNum(value)
    THEN IF parse_date_code(value) # Null
         THEN Num(parse_date_code(value).H * 60 + parse_date_code(value).M)
         ELSE IF ~RatLess(value, Num(0)) /\ ~RatLess(Num(1), value)
         THEN Num(MathRound(Rat(value.num * 1440, value.den)))
         ELSE Null
    ELSE IF ~IsStr(value) THEN Null
    ELSE ParseTimeText(value.str)

\* the first row readFile looks at (rows and columns of ExcelJS count from 1)
startRow == 13

IsEmptyCell(v) == v = Null \/ v = EmptyStr

\* a callback that skips a row as soon as one of its three cells is empty
ReadRow_AnyEmpty(r) ==
    IF r.rowNumber < startRow THEN <<>>
    ELSE IF IsEmptyCell(r.d) \/ IsEmptyCell(r.s) \/ IsEmptyCell(r.e) THEN <<>>
    ELSE <<[date |-> parseExcelDate(r.d),
            startTimeMinutes |-> parseExcelTime(r.s),
            endTimeMinutes |-> parseExcelTime(r.e)]>>

\* the callback of worksheet.eachRow for one row of the sheet: the
\* ParsedRow it pushes, or nothing
ReadRow(r) ==
    IF r.rowNumber < startRow THEN <<>>
    ELSE IF IsEmptyCell(r.d) /\ IsEmptyCell(r.s) /\ IsEmptyCell(r.e) THEN <<>>
    ELSE <<[date |-> parseExcelDate(r.d),
            startTimeMinutes |-> parseExcelTime(r.s),
            endTimeMinutes |-> parseExcelTime(r.e)]>>

RECURSIVE ReadRows(_, _)
ReadRows(sheet, k) ==
    IF k > Len(sheet) THEN <<>>
    ELSE ReadRow(sheet[k]) \o ReadRows(sheet, k + 1)

\* readFile(file) for a file the workbook loader accepts
readFile(file) ==
    [rows |-> ReadRows(file.sheet, 1), fileName |-> file.name, sheetName |-> file.sheetName]

----------------------------------------------------------------------------
(* Function calls under analysis: Init draws the arguments, the action     *)
(* applies the function and stores what it returns.                        *)

NoRet == [none |-> TRUE]

NoCall == [fn |-> "none"]

IdleApp ==
    /\ parsedRows = <<>>
    /\ fileMeta = Text("")
    /\ weekStart = Null
    /\ weekInfo = Null
    /\ warningMessage = Null
    /\ transformedRows = <<>>
    /\ viewMode = "simplified"
    /\ filtered = <<>>
    /\ pending = {}
    /\ selected = Null
    /\ alerts = 0
    /\ lastDownload = Null
    /\ today = 0

\* all sequences over S of length 0..n
SeqsUpTo(S, n) == UNION {[1..k -> S] : k \in 0..n}

Returned(fn) == pc = "returned" /\ args.fn = fn

----------------------------------------------------------------------------
(* calculateHours *)

MinuteMax == 1439

StartSamples == {0, 1, 360, 540, 1020, 1320, 1380, 1439}

InitHours ==
    /\ pc = "call"
    /\ \E s \in {Null} \cup {Num(n) : n \in StartSamples},
          e \in {Null} \cup {Num(n) : n \in 0..MinuteMax} :
            args = [fn |-> "calculateHours", startMinutes |-> s, endMinutes |-> e]
    /\ ret = NoRet
    /\ IdleApp

CallCalculateHours ==
    /\ pc = "call"
    /\ args.fn = "calculateHours"
    /\ ret' = calculateHours(args.startMinutes, args.endMinutes)
    /\ pc' = "returned"
    /\ UNCHANGED <<args, appVars>>

NextHours == CallCalculateHours

SpecHours == InitHours /\ [][NextHours]_vars

\* C3: calculateHours(start, end) = ((end - start) mod 1440) / 60 for start,
\* end in 0..1439 (an earlier end is a shift crossing midnight, identical
\* times give 0), and 0 whenever start or end is null.
C3_HoursModulo ==
    Returned("calculateHours") =>
        IF args.startMinutes = Null \/ args.endMinutes = Null
        THEN ret = Num(0)
        ELSE 60 * ret.num =
             ((args.endMinutes.num - args.startMinutes.num) % 1440) * ret.den

C3_Witness ==
    /\ Returned("calculateHours")
    /\ args.startMinutes = Num(1320)
    /\ args.endMinutes = Num(360)
    /\ ret = Num(8)

----------------------------------------------------------------------------
(* transformToDynamics *)

MaxRows == 2

BaseWeek == Iso(2025, 10, 27)

\* minutes from Monday 00:00 of BaseWeek: Saturday 00:00 and Sunday 23:59
\* before the week, Monday 00:00, Tuesday 00:00, Sunday 23:59 and the
\* Monday after
DateOffsets == {-2 * 1440, -1, 0, 1440, 6 * 1440 + 1439, 7 * 1440}

TimePairs ==
    {<<Num(540), Num(1439)>>, <<Num(0), Num(1)>>,
     <<Num(1320), Num(360)>>, <<Num(540), Num(540)>>,
     <<Null, Num(1020)>>, <<Num(540), Null>>, <<NaN, Num(1020)>>}

ParsedRowOf(d, tp) == [date |-> d, startTimeMinutes |-> tp[1], endTimeMinutes |-> tp[2]]

TransformInputRows ==
    {[row |-> ParsedRowOf(DateAt(dayjs(BaseWeek).time + off), tp),
      date |-> DateAt(dayjs(BaseWeek).time + off)] :
        off \in DateOffsets, tp \in TimePairs}

InitTransform ==
    /\ pc = "call"
    /\ \E rows \in SeqsUpTo(TransformInputRows, MaxRows),
          w \in {BaseWeek, EmptyStr} :
            args = [fn |-> "transformToDynamics", rows |-> rows, weekStartIso |-> w]
    /\ ret = NoRet
    /\ IdleApp

CallTransformToDynamics ==
    /\ pc = "call"
    /\ args.fn = "transformToDynamics"
    /\ ret' = transformToDynamics(args.rows, args.weekStartIso)
    /\ pc' = "returned"
    /\ UNCHANGED <<args, appVars>>

NextTransform == CallTransformToDynamics

SpecTransform == InitTransform /\ [][NextTransform]_vars

\* the four cells of day i (0 = Monday) of the two rows of a result
WorkHours(result, i) == result[1][HOURS_COLS[i + 1]]

WorkComment(result, i) == result[1][COMMENT_COLS[i + 1]]

LunchHours(result, i) == result[2][HOURS_COLS[i + 1]]

LunchComment(result, i) == result[2][COMMENT_COLS[i + 1]]

DayEmpty(result, i) ==
    /\ WorkHours(result, i) = Text("")
    /\ WorkComment(result, i) = Text("")
    /\ LunchHours(result, i) = Text("")
    /\ LunchComment(result, i) = Text("")

DayFilled(result, i) ==
    /\ IsNum(WorkHours(result, i))
    /\ WorkHours(result, i).num > 0
    /\ WorkComment(result, i) = Text("Development")
    /\ LunchHours(result, i) = Rat(1, 2)
    /\ LunchComment(result, i) = Text("Lunsj")

\* C1: for every input and every day, the four cells of the day are all
\* empty or all filled (work hours > 0, 'Development', exactly 0.5, 'Lunsj').
C1_LunchIffWork ==
    Returned("transformToDynamics") =>
        \A i \in 0..6 : DayEmpty(ret, i) \/ DayFilled(ret, i)

C1_Witness ==
    /\ Returned("transformToDynamics")
    /\ DayFilled(ret, 0)
    /\ DayEmpty(ret, 1)
    /\ \E k \in 1..Len(args.rows) : args.rows[k].row.startTimeMinutes = Null

\* the whole minutes a row spans, 0 when a time is missing or not a number
RowMinutes(r) ==
    IF ~IsNum(r.row.startTimeMinutes) \/ ~IsNum(r.row.endTimeMinutes) THEN 0
    ELSE (r.row.endTimeMinutes.num - r.row.startTimeMinutes.num) % 1440

\* local midnight of the day an ISO date text names, in minutes
WeekStartOf(w) == DaysFromCivil(w.y, w.m, w.d) * 1440

\* the calendar days from the week start to the day of the row
CalendarOffset(r, w) ==
    (r.date.time \div 1440) - (dayjs(w).time \div 1440)

AllInsideWeek(rows, w) ==
    /\ IsIso(w)
    /\ \A k \in 1..Len(rows) :
          /\ rows[k].date.time >= dayjs(w).time
          /\ rows[k].date.time < dayjs(w).time + 7 * 1440

RECURSIVE MinutesOfDay(_, _, _, _)
MinutesOfDay(rows, w, d, k) ==
    IF k > Len(rows) THEN 0
    ELSE (IF CalendarOffset(rows[k], w) = d THEN RowMinutes(rows[k]) ELSE 0)
         + MinutesOfDay(rows, w, d, k + 1)

\* C2: for rows inside the week window, the work hours of day d are the
\* sum of the rows dated d calendar days after the week start (to the
\* nearest hundredth of an hour; '' when the sum is 0).
C2_DaySum ==
    (Returned("transformToDynamics") /\ AllInsideWeek(args.rows, args.weekStartIso)) =>
        \A d \in 0..6 :
            LET M    == MinutesOfDay(args.rows, args.weekStartIso, d, 1)
                cell == WorkHours(ret, d)
            IN  IF M = 0 THEN cell = Text("")
                ELSE /\ IsNum(cell)
                     \* | cell - M/60 | <= 1/200
                     /\ 600 * cell.num - 10 * M * cell.den <= 3 * cell.den
                     /\ 10 * M * cell.den - 600 * cell.num <= 3 * cell.den

C2_Witness ==
    /\ Returned("transformToDynamics")
    /\ AllInsideWeek(args.rows, args.weekStartIso)
    /\ Len(args.rows) = 2
    /\ CalendarOffset(args.rows[1], args.weekStartIso) = 0
    /\ CalendarOffset(args.rows[2], args.weekStartIso) = 0
    /\ WorkHours(ret, 0) = Num(16)
    /\ WorkHours(ret, 1) = Text("")

\* C8: a day of M > 0 whole minutes is emitted as M/60 rounded half-up to
\* the hundredth, the rounding being applied to the day's sum and not to
\* each row; a day of 0 minutes is emitted as ''.
C8_RoundOnce ==
    (Returned("transformToDynamics") /\ AllInsideWeek(args.rows, args.weekStartIso)) =>
        \A d \in 0..6 :
            LET M == MinutesOfDay(args.rows, args.weekStartIso, d, 1)
            IN  WorkHours(ret, d) =
                    IF M = 0 THEN Text("") ELSE Rat((10 * M + 3) \div 6, 100)

\* two rows of one minute each on Monday: 2/60 h = 0.0333.. is emitted as
\* 0.03 (each row rounded on its own would give 0.02 + 0.02)
C8_Witness ==
    /\ Returned("transformToDynamics")
    /\ AllInsideWeek(args.rows, args.weekStartIso)
    /\ Len(args.rows) = 2
    /\ \A k \in 1..2 : /\ RowMinutes(args.rows[k]) = 1
                       /\ CalendarOffset(args.rows[k], args.weekStartIso) = 0
    /\ WorkHours(ret, 0) = Rat(3, 100)

\* C9: transformToDynamics returns exactly two rows, the work row first and
\* the lunch row second, with the fixed metadata, for every list of rows.
C9_TwoRows ==
    Returned("transformToDynamics") =>
        /\ Len(ret) = 2
        /\ ret[1]["LineNum"] = Text("1.0000000000000000")
        /\ ret[1]["ACTIVITYNUMBER"] = Text("A110015929")
        /\ ret[2]["LineNum"] = Text("2.0000000000000000")
        /\ ret[2]["ACTIVITYNUMBER"] = Text("A110015932")
        /\ \A k \in 1..2 : /\ ret[k]["ProjectDataAreaId"] = Text("110")
                           /\ ret[k]["ProjId"] = Text("11011127")

\* a list whose rows have a null start and a null end still gives two rows
C9_Witness ==
    /\ Returned("transformToDynamics")
    /\ Len(args.rows) = 2
    /\ args.rows[1].row.startTimeMinutes = Null
    /\ args.rows[2].row.endTimeMinutes = Null
    /\ Len(ret) = 2
    /\ ret[1]["ACTIVITYNUMBER"] = Text("A110015929")

\* the slot the claim gives a row: Monday for a row before the week, Sunday
\* for a row 7 or more days after its start, its own day otherwise
ClampedSlot(r, w) ==
    LET start == WeekStartOf(w)
    IN  IF r.date.time < start THEN 0
        ELSE IF r.date.time >= start + 7 * 1440 THEN 6
        ELSE (r.date.time - start) \div 1440

RECURSIVE MinutesOfSlot(_, _, _, _)
MinutesOfSlot(rows, w, d, k) ==
    IF k > Len(rows) THEN 0
    ELSE (IF ClampedSlot(rows[k], w) = d THEN RowMinutes(rows[k]) ELSE 0)
         + MinutesOfSlot(rows, w, d, k + 1)

DayCells(result, d) ==
    <<WorkHours(result, d), WorkComment(result, d),
      LunchHours(result, d), LunchComment(result, d)>>

\* the hours of day d as a number, 0 for ''
HoursValue(result, d) ==
    IF IsNum(WorkHours(result, d)) THEN WorkHours(result, d) ELSE Num(0)

\* C20: adding one more row to the input changes at most the cells of the
\* day slot of that row and never decreases the hours of a day; a row with
\* a null start or end, or with duration 0, leaves the output unchanged.
C20_OneMoreRow ==
    (Returned("transformToDynamics") /\ Len(args.rows) >= 1) =>
        LET n      == Len(args.rows)
            added  == args.rows[n]
            before == transformToDynamics(SubSeq(args.rows, 1, n - 1), args.weekStartIso)
        IN  /\ \A d \in 0..6 :
                  \/ DayCells(ret, d) = DayCells(before, d)
                  \/ /\ IsIso(args.weekStartIso)
                     /\ d = ClampedSlot(added, args.weekStartIso)
            /\ \A d \in 0..6 : ~RatLess(HoursValue(ret, d), HoursValue(before, d))
            /\ (\/ added.row.startTimeMinutes = Null
                \/ added.row.endTimeMinutes = Null
                \/ RowMinutes(added) = 0) => ret = before

\* a second row of 1 minute on a Monday that holds 8 hours raises the
\* Monday hours to 8.02 and leaves the other days empty
C20_Witness ==
    /\ Returned("transformToDynamics")
    /\ args.weekStartIso = BaseWeek
    /\ Len(args.rows) = 2
    /\ ClampedSlot(args.rows[1], BaseWeek) = 0 /\ RowMinutes(args.rows[1]) = 480
    /\ ClampedSlot(args.rows[2], BaseWeek) = 0 /\ RowMinutes(args.rows[2]) = 1
    /\ WorkHours(ret, 0) = Rat(802, 100)
    /\ \A d \in 1..6 : DayEmpty(ret, d)

\* C18: DYNAMICS_HEADERS is a list of 18 distinct names: LineNum,
\* ProjectDataAreaId, ProjId, ACTIVITYNUMBER, the 7 hours columns (HOURS at
\* index 4) and the 7 comment columns (EXTERNALCOMMENTS at index 11); both
\* rows transformToDynamics returns have exactly these 18 keys.
C18_HeadersAndKeys ==
    /\ Len(DYNAMICS_HEADERS) = 18
    /\ \A i, j \in 1..18 : i # j => DYNAMICS_HEADERS[i] # DYNAMICS_HEADERS[j]
    /\ SubSeq(DYNAMICS_HEADERS, 1, 4)
          = <<"LineNum", "ProjectDataAreaId", "ProjId", "ACTIVITYNUMBER">>
    /\ SubSeq(DYNAMICS_HEADERS, 5, 11) = HOURS_COLS
    /\ SubSeq(DYNAMICS_HEADERS, 12, 18) = COMMENT_COLS
    /\ DYNAMICS_HEADERS[4 + 1] = "HOURS"
    /\ DYNAMICS_HEADERS[11 + 1] = "EXTERNALCOMMENTS"
    /\ Returned("transformToDynamics") =>
          \A k \in 1..Len(ret) :
              DOMAIN ret[k] = {DYNAMICS_HEADERS[i] : i \in 1..Len(DYNAMICS_HEADERS)}

\* rows returned with Monday filled and Tuesday empty: 18 keys each
C18_Witness ==
    /\ Returned("transformToDynamics")
    /\ Len(ret) = 2
    /\ DayFilled(ret, 0) /\ DayEmpty(ret, 1)
    /\ Cardinality(DOMAIN ret[1]) = 18 /\ Cardinality(DOMAIN ret[2]) = 18

----------------------------------------------------------------------------
(* transformToDynamics on every day total of whole minutes *)

\* a row on the Monday of BaseWeek from 00:00 to the minute M
MondayRow(M) ==
    [row |-> ParsedRowOf(dayjs(BaseWeek), <<Num(0), Num(M)>>), date |-> dayjs(BaseWeek)]

\* one row of 0..1439 minutes, alone or after a row of 1439 minutes
InitDayMinutes ==
    /\ pc = "call"
    /\ \E M \in 0..MinuteMax, before \in {<<>>, <<MondayRow(MinuteMax)>>} :
          args = [fn |-> "transformToDynamics", rows |-> before \o <<MondayRow(M)>>,
                  weekStartIso |-> BaseWeek]
    /\ ret = NoRet
    /\ IdleApp

SpecDayMinutes == InitDayMinutes /\ [][NextTransform]_vars

\* n / d rounded to the nearest integer, a tie going to the even one
RoundHalfEven(n, d) ==
    LET q == n \div d
        r == n % d
    IN  IF 2 * r < d THEN q
        ELSE IF 2 * r > d THEN q + 1
        ELSE IF q % 2 = 0 THEN q ELSE q + 1

\* n / d rounded to the nearest integer, a tie going up
RoundHalfUp(n, d) == (2 * n + d) \div (2 * d)

\* C26: for a Monday of M whole minutes the hours cell is 5M/3 hundredths
\* rounded, the same with ties going up and with ties going to the even
\* digit, because 5M/3 is never half-way; for M >= 1 the cell is a number
\* of at least 0.02, never ''.
C26_NoRoundingTie ==
    Returned("transformToDynamics") =>
        LET M == MinutesOfDay(args.rows, args.weekStartIso, 0, 1)
        IN  /\ 2 * ((5 * M) % 3) # 3
            /\ RoundHalfUp(5 * M, 3) = RoundHalfEven(5 * M, 3)
            /\ IF M = 0 THEN WorkHours(ret, 0) = Text("")
               ELSE /\ WorkHours(ret, 0) = Rat(RoundHalfEven(5 * M, 3), 100)
                    /\ ~RatLess(WorkHours(ret, 0), Rat(2, 100))

\* one minute of work gives 0.02 hours, and 1439 + 1 minutes give 24
C26_Witness ==
    /\ Returned("transformToDynamics")
    /\ \/ /\ MinutesOfDay(args.rows, args.weekStartIso, 0, 1) = 1
          /\ WorkHours(ret, 0) = Rat(2, 100)
          /\ LunchHours(ret, 0) = Rat(1, 2)
       \/ /\ MinutesOfDay(args.rows, args.weekStartIso, 0, 1) = 1440
          /\ WorkHours(ret, 0) = Num(24)

----------------------------------------------------------------------------
(* transformToDynamics on the same rows in another order *)

MaxOrderRows == 3

\* rows of 899, 1 and 480 minutes on Sunday 23:59 before BaseWeek, on its
\* Monday and on its Tuesday at 10:00
OrderInputRows ==
    {[row |-> ParsedRowOf(DateAt(dayjs(BaseWeek).time + off), tp),
      date |-> DateAt(dayjs(BaseWeek).time + off)] :
        off \in {-1, 0, 1440 + 600},
        tp \in {<<Num(540), Num(1439)>>, <<Num(0), Num(1)>>, <<Num(1320), Num(360)>>}}

InitOrder ==
    /\ pc = "call"
    /\ \E rows \in SeqsUpTo(OrderInputRows, MaxOrderRows) :
            args = [fn |-> "transformToDynamics", rows |-> rows, weekStartIso |-> BaseWeek]
    /\ ret = NoRet
    /\ IdleApp

SpecOrder == InitOrder /\ [][NextTransform]_vars

\* the rows with rows i and j, of one day, replaced by one row of that day
\* with the minutes of both
Merged(rows, i, j) ==
    LET both == [row |-> ParsedRowOf(rows[i].date,
                                     <<Num(0), Num(RowMinutes(rows[i]) + RowMinutes(rows[j]))>>),
                 date |-> rows[i].date]
    IN  SubSeq(rows, 1, i - 1) \o <<both>> \o SubSeq(rows, i + 1, j - 1)
            \o SubSeq(rows, j + 1, Len(rows))

\* C28: transformToDynamics returns the same two rows for the rows in any
\* other order, and for the rows with two rows of one day replaced by one
\* row holding the minutes of both (where these stay below 24 hours).
C28_OrderAndGrouping ==
    Returned("transformToDynamics") =>
        /\ \A p \in Permutations(1..Len(args.rows)) :
              transformToDynamics([k \in 1..Len(args.rows) |-> args.rows[p[k]]],
                                  args.weekStartIso) = ret
        /\ \A i, j \in 1..Len(args.rows) :
              (/\ i < j
               /\ args.rows[i].date = args.rows[j].date
               /\ RowMinutes(args.rows[i]) + RowMinutes(args.rows[j]) < 1440) =>
                  transformToDynamics(Merged(args.rows, i, j), args.weekStartIso) = ret

\* 899 minutes and then 1 minute on Monday and 480 minutes on Tuesday:
\* 15 hours on Monday, as for the rows in any order and for one row of 900
\* minutes
C28_Witness ==
    /\ Returned("transformToDynamics")
    /\ Len(args.rows) = 3
    /\ args.rows[1].date = args.rows[2].date
    /\ RowMinutes(args.rows[1]) = 899
    /\ RowMinutes(args.rows[2]) = 1
    /\ CalendarOffset(args.rows[3], args.weekStartIso) = 1
    /\ WorkHours(ret, 0) = Num(15)
    /\ WorkHours(ret, 1) = Num(8)

----------------------------------------------------------------------------
(* filterRowsToWeek *)

MaxFilterRows == 4

\* a Monday, a Tuesday, the empty text and no value
FilterWeeks == {BaseWeek, Iso(2025, 10, 28), EmptyStr, Null}

\* around the window of BaseWeek: the minute before it, its first minute,
\* Tuesday 00:00, its last minute, the minute after it and one more
FilterDateOffsets == {-1, 0, 1440, 6 * 1440 + 1439, 7 * 1440, 7 * 1440 + 1}

FilterInputRows ==
    {ParsedRowOf(d, <<Num(540), Num(1020)>>) :
        d \in {Null, InvalidDate}
              \cup {DateAt(dayjs(BaseWeek).time + off) : off \in FilterDateOffsets}}

InitFilter ==
    /\ pc = "call"
    /\ \E rows \in SeqsUpTo(FilterInputRows, MaxFilterRows), w \in FilterWeeks :
            args = [fn |-> "filterRowsToWeek", rows |-> rows, weekStartIso |-> w]
    /\ ret = NoRet
    /\ IdleApp

CallFilterRowsToWeek ==
    /\ pc = "call"
    /\ args.fn = "filterRowsToWeek"
    /\ ret' = filterRowsToWeek(args.rows, args.weekStartIso)
    /\ pc' = "returned"
    /\ UNCHANGED <<args, appVars>>

NextFilter == CallFilterRowsToWeek

SpecFilter == InitFilter /\ [][NextFilter]_vars

\* the first minute of the day an ISO date text names
WeekStartMinute(w) == DaysFromCivil(w.y, w.m, w.d) * 1440

\* weekStart <= date < weekStart + 7 days, for a non-null valid date
KeptByWindow(r, w) ==
    /\ DOMAIN r.date = {"time"}
    /\ WeekStartMinute(w) <= r.date.time
    /\ r.date.time < WeekStartMinute(w) + 7 * 1440

RECURSIVE KeptRows(_, _, _)
KeptRows(rows, w, k) ==
    IF k > Len(rows) THEN <<>>
    ELSE (IF KeptByWindow(rows[k], w)
          THEN <<[row |-> rows[k], date |-> rows[k].date]>>
          ELSE <<>>) \o KeptRows(rows, w, k + 1)

\* C4: with a non-empty week start, filterRowsToWeek keeps a row iff its
\* date is non-null, valid and weekStart <= date < weekStart + 7 days.
C4_WindowClosedOpen ==
    (Returned("filterRowsToWeek") /\ args.weekStartIso \notin {EmptyStr, Null}) =>
        ret = KeptRows(args.rows, args.weekStartIso, 1)

\* a null date, the first minute of the week, its last minute (Sunday 23:59)
\* and the first minute of the next week: the middle two are kept
C4_Witness ==
    /\ Returned("filterRowsToWeek")
    /\ args.weekStartIso = BaseWeek
    /\ Len(args.rows) = 4
    /\ args.rows[1].date = Null
    /\ args.rows[2].date = DateAt(WeekStartMinute(BaseWeek))
    /\ args.rows[3].date = DateAt(WeekStartMinute(BaseWeek) + 6 * 1440 + 1439)
    /\ args.rows[4].date = DateAt(WeekStartMinute(BaseWeek) + 7 * 1440)
    /\ ret = <<[row |-> args.rows[2], date |-> args.rows[2].date],
               [row |-> args.rows[3], date |-> args.rows[3].date]>>

\* C16: filterRowsToWeek returns the empty list whenever weekStartIso is
\* empty or missing, whatever rows are passed.
C16_NoWeekNoRows ==
    (Returned("filterRowsToWeek") /\ args.weekStartIso \in {EmptyStr, Null}) =>
        ret = <<>>

\* no week start, and rows with valid dates among those passed
C16_Witness ==
    /\ Returned("filterRowsToWeek")
    /\ args.weekStartIso = Null
    /\ Len(args.rows) >= 2
    /\ args.rows[1].date = DateAt(WeekStartMinute(BaseWeek))
    /\ args.rows[2].date = InvalidDate
    /\ ret = <<>>

----------------------------------------------------------------------------
(* handleTransform: filterRowsToWeek, then transformToDynamics *)

InitFilterThenTransform ==
    /\ pc = "call"
    /\ \E rows \in SeqsUpTo(FilterInputRows, MaxRows), w \in FilterWeeks :
            args = [fn |-> "handleTransform", parsedRows |-> rows, weekStart |-> w]
    /\ ret = NoRet
    /\ IdleApp

\* the body of handleTransform on the rows and the week of args: what it
\* passes to transformToDynamics and to setTransformedRows
CallFilterThenTransform ==
    /\ pc = "call"
    /\ args.fn = "handleTransform"
    /\ ret' = IF args.weekStart = Null \/ args.weekStart = EmptyStr
              THEN [returnedEarly |-> TRUE]
              ELSE LET rows == filterRowsToWeek(args.parsedRows, args.weekStart)
                   IN  [filtered |-> rows,
                        transformed |-> transformToDynamics(rows, args.weekStart)]
    /\ pc' = "returned"
    /\ UNCHANGED <<args, appVars>>

NextFilterThenTransform == CallFilterThenTransform

SpecFilterThenTransform == InitFilterThenTransform /\ [][NextFilterThenTransform]_vars

\* the whole minutes of the rows of parsedRows dated d calendar days after
\* the week start w, from row k on
RECURSIVE MinutesOnWeekday(_, _, _, _)
MinutesOnWeekday(rows, w, d, k) ==
    IF k > Len(rows) THEN 0
    ELSE (IF /\ KeptByWindow(rows[k], w)
             /\ rows[k].date.time \div 1440 - WeekStartMinute(w) \div 1440 = d
             /\ IsNum(rows[k].startTimeMinutes) /\ IsNum(rows[k].endTimeMinutes)
          THEN (rows[k].endTimeMinutes.num - rows[k].startTimeMinutes.num) % 1440
          ELSE 0)
         + MinutesOnWeekday(rows, w, d, k + 1)

\* C27: every row the filter passes on is 0 to 6 whole days after the week
\* start, so the index needs no clamping, and the hours of day d of the
\* result are those of the rows of parsedRows dated d days after the week
\* start.
C27_FilteredOffsetsInWeek ==
    (Returned("handleTransform") /\ IsIso(args.weekStart)) =>
        /\ \A k \in 1..Len(ret.filtered) :
              (ret.filtered[k].date.time - WeekStartMinute(args.weekStart)) \div 1440 \in 0..6
        /\ \A d \in 0..6 :
              LET M == MinutesOnWeekday(args.parsedRows, args.weekStart, d, 1)
              IN  WorkHours(ret.transformed, d) =
                      IF M = 0 THEN Text("") ELSE Rat((10 * M + 3) \div 6, 100)

\* a row of Sunday 23:59 and a row of the Monday after: the first is counted
\* on day 6, the second is not counted
C27_Witness ==
    /\ Returned("handleTransform")
    /\ args.weekStart = BaseWeek
    /\ Len(args.parsedRows) = 2
    /\ args.parsedRows[1].date = DateAt(WeekStartMinute(BaseWeek) + 6 * 1440 + 1439)
    /\ args.parsedRows[2].date = DateAt(WeekStartMinute(BaseWeek) + 7 * 1440)
    /\ Len(ret.filtered) = 1
    /\ WorkHours(ret.transformed, 6) = Num(8)
    /\ \A d \in 0..5 : DayEmpty(ret.transformed, d)

----------------------------------------------------------------------------
(* parseExcelDate on dotted date texts *)

OneDigit == {<<c>> : c \in Digits}

TwoDigits == {<<c1, c2>> : c1 \in Digits, c2 \in Digits}

YearTexts ==
    {<<"0", "0">>, <<"2", "4">>, <<"2", "5">>, <<"9", "9">>,
     <<"0", "0", "0", "0">>, <<"0", "0", "2", "4">>, <<"1", "9", "0", "0">>,
     <<"2", "0", "0", "0">>, <<"2", "0", "2", "4">>, <<"2", "0", "2", "5">>,
     <<"2", "1", "0", "0">>}

InitParseDate ==
    /\ pc = "call"
    /\ \E d \in OneDigit \cup TwoDigits, m \in OneDigit \cup TwoDigits, y \in YearTexts :
            args = [fn |-> "parseExcelDate",
                    value |-> Str(d \o <<".">> \o m \o <<".">> \o y),
                    day |-> d, month |-> m, year |-> y]
    /\ ret = NoRet
    /\ IdleApp

CallParseExcelDate ==
    /\ pc = "call"
    /\ args.fn = "parseExcelDate"
    /\ ret' = parseExcelDate(args.value)
    /\ pc' = "returned"
    /\ UNCHANGED <<args, appVars>>

NextParseDate == CallParseExcelDate

SpecParseDate == InitParseDate /\ [][NextParseDate]_vars

\* the length of month M of a year, by the Gregorian rule
LengthOfMonth(year, M) ==
    IF M = 2
    THEN (IF year % 4 = 0 /\ (year % 100 # 0 \/ year % 400 = 0) THEN 29 ELSE 28)
    ELSE IF M \in {4, 6, 9, 11} THEN 30 ELSE 31

\* the year a year text names: 2000 + YY for two digits
YearOfText(y) == IF Len(y) = 2 THEN 2000 + ParseInt(y) ELSE ParseInt(y)

\* the date D.M.year exists
DateExists(D, M, year) == M \in 1..12 /\ D >= 1 /\ D <= LengthOfMonth(year, M)

\* C5: for every text D.M.YY or D.M.YYYY parseExcelDate returns the
\* calendar date (year, M, D) (YY read as 2000 + YY) iff the date exists,
\* and null otherwise, never a rolled-over date.
C5_StrictDottedDate ==
    Returned("parseExcelDate") =>
        LET D    == ParseInt(args.day)
            M    == ParseInt(args.month)
            year == YearOfText(args.year)
        IN  IF DateExists(D, M, year)
            THEN ret = DateAt(DaysFromCivil(year, M, D) * 1440)
            ELSE ret = Null

\* the same for the texts whose year is 100 or later
C5_FromYear100 ==
    (Returned("parseExcelDate") /\ YearOfText(args.year) >= 100) =>
        LET D    == ParseInt(args.day)
            M    == ParseInt(args.month)
            year == YearOfText(args.year)
        IN  IF DateExists(D, M, year)
            THEN ret = DateAt(DaysFromCivil(year, M, D) * 1440)
            ELSE ret = Null

----------------------------------------------------------------------------
(* parseExcelTime *)

MaxTimeLen == 5

TimeAlphabet == {"0", "2", "4", "5", "6", "9", ":", ".", ",", " ", "a"}

\* the day fractions are the multiples of 1/DayFractionSteps in [0, 1]
DayFractionSteps == 96

\* the cell values that are not texts
TimeCellValues ==
    {Rat(k, DayFractionSteps) : k \in 0..DayFractionSteps}
        \cup {Rat(2 * 24 * 45957 + 17, 2 * 24), Rat(3, 2), Rat(0 - 1, 4), Num(2)}
        \cup {DateAt(-1), DateAt(0), DateAt(570), DateAt(20388 * 1440 + 1439)}
        \cup {Null, NaN, InvalidDate, OtherValue}

InitParseTime ==
    /\ pc = "call"
    /\ \/ \E k \in 0..MaxTimeLen : \E t \in [1..k -> TimeAlphabet] :
              args = [fn |-> "parseExcelTime", value |-> Str(t)]
       \/ \E v \in TimeCellValues : args = [fn |-> "parseExcelTime", value |-> v]
    /\ ret = NoRet
    /\ IdleApp

CallParseExcelTime ==
    /\ pc = "call"
    /\ args.fn = "parseExcelTime"
    /\ ret' = parseExcelTime(args.value)
    /\ pc' = "returned"
    /\ UNCHANGED <<args, appVars>>

NextParseTime == CallParseExcelTime

SpecParseTime == InitParseTime /\ [][NextParseTime]_vars

\* a text of 1 or 2 digits
IsHourText(t) == Len(t) \in {1, 2} /\ \A i \in 1..Len(t) : t[i] \in Digits

\* the text t without the blanks at its ends
RECURSIVE Trimmed(_)
Trimmed(t) ==
    IF t # <<>> /\ Head(t) = " " THEN Trimmed(Tail(t))
    ELSE IF t # <<>> /\ t[Len(t)] = " " THEN Trimmed(SubSeq(t, 1, Len(t) - 1))
    ELSE t

\* what the claim says a time text gives
ExpectedMinutes(text) ==
    LET t == Trimmed(text)
        n == Len(t)
    IN  IF /\ n >= 4
           /\ t[n - 2] \in {":", ".", ","}
           /\ IsHourText(SubSeq(t, 1, n - 3))
           /\ t[n - 1] \in Digits /\ t[n] \in Digits
        THEN LET h == ParseInt(SubSeq(t, 1, n - 3))
                 m == ParseInt(SubSeq(t, n - 1, n))
             IN  IF h <= 23 /\ m <= 59 THEN Num(60 * h + m) ELSE Null
        ELSE IF IsHourText(t) /\ ParseInt(t) <= 23 THEN Num(60 * ParseInt(t))
        ELSE Null

\* C6: for a string, parseExcelTime returns 60h + m for 'H(H):MM', 'H(H).MM'
\* and 'H(H),MM' with h <= 23 and m <= 59, 60h for a bare hour h <= 23, and
\* null for every other string.
C6_TimeText ==
    (Returned("parseExcelTime") /\ IsStr(args.value)) =>
        ret = ExpectedMinutes(args.value.str)

C6_Witness ==
    /\ Returned("parseExcelTime")
    /\ args.value = Str(<<"2", "5", ":", "0", "0">>)
    /\ ret = Null

\* C7: every non-null value parseExcelTime returns, for a string, a native
\* date or a number (the day fractions in [0, 1] included), is an integer
\* in 0..1439.
C7_MinuteRange ==
    (Returned("parseExcelTime") /\ args.value # InvalidDate /\ ret # Null) =>
        /\ IsNum(ret)
        /\ ret.den = 1
        /\ ret.num \in 0..1439

----------------------------------------------------------------------------
(* parseExcelTime before and after the change of the spreadsheet library *)

\* time texts: well-formed ones, out-of-range ones and no time at all
TimeTexts ==
    {<<"0", "9", ":", "0", "0">>, <<"9">>, <<" ", "7", ".", "3", "0", " ">>,
     <<"1", "2", ",", "3", "0">>, <<"2", "3", ":", "5", "9">>, <<"2", "4", ":", "0", "0">>,
     <<"0", "9", ":", "6", "0">>, <<"9", ":", "5">>, <<"a">>, <<" ">>, <<>>}

\* day fractions with seconds: 00:00:29, 00:00:30, 12:00:30 and 23:59:59
SecondFractions == {Rat(29, 86400), Rat(30, 86400), Rat(43230, 86400), Rat(86399, 86400)}

InitBothParseTime ==
    /\ pc = "call"
    /\ \E v \in {Str(t) : t \in TimeTexts} \cup TimeCellValues \cup SecondFractions :
          args = [fn |-> "parseExcelTime, both libraries", value |-> v]
    /\ ret = [xlsx |-> NoRet, exceljs |-> NoRet]
    /\ IdleApp

\* the call of the xlsx-based parseExcelTime
CallParseExcelTimeXlsx ==
    /\ pc = "call"
    /\ args.fn = "parseExcelTime, both libraries"
    /\ ret.xlsx = NoRet
    /\ ret' = [ret EXCEPT !.xlsx = parseExcelTimeXlsx(args.value)]
    /\ pc' = IF ret.exceljs = NoRet THEN "call" ELSE "returned"
    /\ UNCHANGED <<args, appVars>>

\* the call of the ExcelJS-based parseExcelTime
CallParseExcelTimeExcelJS ==
    /\ pc = "call"
    /\ args.fn = "parseExcelTime, both libraries"
    /\ ret.exceljs = NoRet
    /\ ret' = [ret EXCEPT !.exceljs = parseExcelTime(args.value)]
    /\ pc' = IF ret.xlsx = NoRet THEN "call" ELSE "returned"
    /\ UNCHANGED <<args, appVars>>

NextBothParseTime == CallParseExcelTimeXlsx \/ CallParseExcelTimeExcelJS

SpecBothParseTime == InitBothParseTime /\ [][NextBothParseTime]_vars

\* C25: for every text and for every number from 0 to 1, both included, the
\* xlsx-based and the ExcelJS-based parseExcelTime return the same value.
C25_SameTimeBothLibraries ==
    (/\ Returned("parseExcelTime, both libraries")
     /\ \/ IsStr(args.value)
        \/ /\ IsNum(args.value)
           /\ ~RatLess(args.value, Num(0)) /\ ~RatLess(Num(1), args.value))
        => ret.xlsx = ret.exceljs

----------------------------------------------------------------------------
(* App.tsx and WeekSelector.tsx *)

MaxPending == 2

MaxAlerts == 1

MaxDaysPassed == 1

\* Sunday 2025-11-09, the last day of the week after BaseWeek
FirstToday == DaysFromCivil(2025, 11, 9)

\* rows of a worksheet: Tuesday of BaseWeek as text, Sunday 23:59 of BaseWeek
\* as a native date with day-fraction times, Monday of the next week, a
\* date that does not exist, a blank row and a header row above row 13
SheetTuesday(n) ==
    [rowNumber |-> n, d |-> Str(<<"2", "8", ".", "1", "0", ".", "2", "5">>), s |-> Str(<<"0", "9", ":", "0", "0">>), e |-> Str(<<"1", "7", ":", "0", "0">>)]

SheetSunday(n) ==
    [rowNumber |-> n, d |-> DateAt(WeekStartMinute(BaseWeek) + 6 * 1440 + 1439),
     s |-> Rat(3, 8), e |-> Rat(17, 24)]

SheetNextMonday(n) ==
    [rowNumber |-> n, d |-> Str(<<"3", ".", "1", "1", ".", "2", "0", "2", "5">>), s |-> Str(<<"9">>), e |-> Str(<<"1", "2", ",", "3", "0">>)]

SheetNoDate(n) ==
    [rowNumber |-> n, d |-> Str(<<"3", "2", ".", "0", "1", ".", "2", "5">>), s |-> Str(<<"0", "9", ":", "0", "0">>), e |-> Str(<<"1", "7", ":", "0", "0">>)]

SheetBlank(n) == [rowNumber |-> n, d |-> Null, s |-> EmptyStr, e |-> Null]

SheetHeader(n) ==
    [rowNumber |-> n, d |-> Str(<<"D", "a", "t", "o">>), s |-> Str(<<"D", "a", "t", "o">>), e |-> Str(<<"D", "a", "t", "o">>)]

File(name, corrupt, sheet) ==
    [name |-> name, sheetName |-> "Sheet1", corrupt |-> corrupt, sheet |-> sheet]

Files ==
    {File("corrupt.xlsx", TRUE, <<>>),
     File("empty.xlsx", FALSE, <<SheetHeader(12)>>),
     File("both.xlsx", FALSE,
          <<SheetHeader(12), SheetNextMonday(13), SheetBlank(14), SheetTuesday(15),
            SheetSunday(16)>>),
     File("nodate.xlsx", FALSE, <<SheetNoDate(13)>>)}

\* the days the date picker offers: Sunday before BaseWeek, Wednesday of
\* BaseWeek, Monday of the next week
PickerDates ==
    {DateAt(WeekStartMinute(BaseWeek) + off * 1440) : off \in {-1, 2, 7}}

\* what await readFile(file) resolves to, for the files that can be read
readFileResult == [file \in {f \in Files : ~f.corrupt} |-> readFile(file)]

InitApp ==
    /\ pc = "idle"
    /\ args = NoCall
    /\ ret = NoRet
    /\ parsedRows = <<>>
    /\ fileMeta = Text("")
    /\ weekStart = Null
    /\ weekInfo = Null
    /\ warningMessage = Null
    /\ transformedRows = <<>>
    /\ viewMode = "simplified"
    /\ filtered = <<>>
    /\ pending = {}
    /\ selected = Null
    /\ alerts = 0
    /\ lastDownload = Null
    /\ today = FirstToday

\* handleFileChange up to the await: the file is handed to readFile
handleFileChange(file) ==
    /\ Cardinality(pending) < MaxPending
    /\ file \notin pending
    /\ pending' = pending \cup {file}
    /\ selected' = file
    /\ UNCHANGED <<callVars, parsedRows, fileMeta, weekStart, weekInfo, warningMessage,
                   transformedRows, viewMode, filtered, alerts, lastDownload, today>>

\* a continuation that also drops the transform result of the file before
handleFileChangeResume_ClearsResult(file) ==
    /\ file \in pending
    /\ ~file.corrupt
    /\ pending' = pending \ {file}
    /\ LET result == readFileResult[file]
           rows   == result.rows
           now    == DateAt(today * MinutesPerDay)
           check  == checkCurrentWeekInFile(rows, now)
           dates  == getValidDates(rows)
           \* dates.reduce((a, b) => (a.isBefore(b) ? a : b))
           min    == CHOOSE d \in {dates[i] : i \in 1..Len(dates)} :
                        \A i \in 1..Len(dates) : ~isBefore(dates[i], d)
           fromMin == setWeekStartFromDate(FormatIso(min))
           initialWeek == IF check.hasCurrentWeek THEN getCurrentWeekMonday(now)
                          ELSE IF fromMin = Null THEN EmptyStr ELSE fromMin
       IN  /\ parsedRows' = rows
           /\ fileMeta' = [fileName |-> result.fileName, sheetName |-> result.sheetName,
                           rows |-> Len(rows)]
           /\ warningMessage' = check.warningMessage
           /\ IF Len(dates) > 0
              THEN /\ weekStart' = initialWeek
                   /\ weekInfo' = getWeekInfo(initialWeek)
              ELSE UNCHANGED <<weekStart, weekInfo>>
    /\ transformedRows' = <<>>
    /\ UNCHANGED <<callVars, viewMode, filtered, selected, alerts, lastDownload, today>>

\* handleFileChange after the await, readFile having returned
handleFileChangeResume(file) ==
    /\ file \in pending
    /\ ~file.corrupt
    /\ pending' = pending \ {file}
    /\ LET result == readFileResult[file]
           rows   == result.rows
           now    == DateAt(today * MinutesPerDay)
           check  == checkCurrentWeekInFile(rows, now)
           dates  == getValidDates(rows)
           \* dates.reduce((a, b) => (a.isBefore(b) ? a : b))
           min    == CHOOSE d \in {dates[i] : i \in 1..Len(dates)} :
                        \A i \in 1..Len(dates) : ~isBefore(dates[i], d)
           fromMin == setWeekStartFromDate(FormatIso(min))
           initialWeek == IF check.hasCurrentWeek THEN getCurrentWeekMonday(now)
                          ELSE IF fromMin = Null THEN EmptyStr ELSE fromMin
       IN  /\ parsedRows' = rows
           /\ fileMeta' = [fileName |-> result.fileName, sheetName |-> result.sheetName,
                           rows |-> Len(rows)]
           /\ warningMessage' = check.warningMessage
           /\ IF Len(dates) > 0
              THEN /\ weekStart' = initialWeek
                   /\ weekInfo' = getWeekInfo(initialWeek)
              ELSE UNCHANGED <<weekStart, weekInfo>>
    /\ UNCHANGED <<callVars, transformedRows, viewMode, filtered, selected, alerts,
                   lastDownload, today>>

\* a catch block that also drops the rows of the file read before
handleFileChangeCatch_Clears(file) ==
    /\ file \in pending
    /\ file.corrupt
    /\ alerts < MaxAlerts
    /\ pending' = pending \ {file}
    /\ alerts' = alerts + 1
    /\ parsedRows' = <<>>
    /\ fileMeta' = Text("")
    /\ UNCHANGED <<callVars, weekStart, weekInfo, warningMessage,
                   transformedRows, viewMode, filtered, selected, lastDownload, today>>

\* handleFileChange after the await, readFile having thrown: the catch block
handleFileChangeCatch(file) ==
    /\ file \in pending
    /\ file.corrupt
    /\ alerts < MaxAlerts
    /\ pending' = pending \ {file}
    /\ alerts' = alerts + 1
    /\ UNCHANGED <<callVars, parsedRows, fileMeta, weekStart, weekInfo, warningMessage,
                   transformedRows, viewMode, filtered, selected, lastDownload, today>>

handleWeekChange(newWeekStart) ==
    /\ weekStart' = newWeekStart
    /\ weekInfo' = getWeekInfo(newWeekStart)

\* a date picker handler that hands over the picked day as it is
handleDateChange_AsPicked(date) ==
    /\ date # Null
    /\ handleWeekChange(FormatIso(dayjs(date)))
    /\ UNCHANGED <<callVars, parsedRows, fileMeta, warningMessage, transformedRows,
                   viewMode, filtered, pending, selected, alerts, lastDownload, today>>

\* WeekSelector.handleDateChange(date) for a date picked in the date picker
handleDateChange(date) ==
    /\ date # Null
    /\ handleWeekChange(FormatIso(IF isoWeekday(dayjs(date)) = 1 THEN dayjs(date)
                                  ELSE ToMonday(dayjs(date))))
    /\ UNCHANGED <<callVars, parsedRows, fileMeta, warningMessage, transformedRows,
                   viewMode, filtered, pending, selected, alerts, lastDownload, today>>

\* a Transform button that is also disabled while a warning is shown
TransformDisabled_OrWarning == Len(parsedRows) = 0 \/ warningMessage # Null

\* TransformSection: the disabled attribute of the Transform button
TransformDisabled == Len(parsedRows) = 0

\* a click on the Transform button: handleTransform, which returns at once
\* when no week is selected
handleTransform ==
    /\ ~TransformDisabled
    /\ UNCHANGED <<callVars, parsedRows, fileMeta, weekStart, weekInfo, warningMessage,
                   viewMode, pending, selected, alerts, lastDownload, today>>
    /\ IF weekStart = Null \/ weekStart = EmptyStr
       THEN UNCHANGED <<filtered, transformedRows>>
       ELSE LET rows == filterRowsToWeek(parsedRows, weekStart)
            IN  /\ filtered' = rows
                /\ transformedRows' = transformToDynamics(rows, weekStart)

\* download buttons that need a day with hours in the result
hasRows_WithHours ==
    /\ Len(transformedRows) > 0
    /\ \E i \in 0..6 : ~DayEmpty(transformedRows, i)

\* PreviewSection: both download buttons are disabled unless hasRows
hasRows == Len(transformedRows) > 0

handleDownloadCsv ==
    /\ hasRows
    /\ Len(transformedRows) > 0
    /\ lastDownload' = [name |-> "dynamics_import.csv", headers |-> DYNAMICS_HEADERS,
                        rows |-> transformedRows]
    /\ UNCHANGED <<callVars, parsedRows, fileMeta, weekStart, weekInfo, warningMessage,
                   transformedRows, viewMode, filtered, pending, selected, alerts, today>>

\* the rows exported are those the handler read before the await
handleDownloadXlsx ==
    /\ hasRows
    /\ Len(transformedRows) > 0
    /\ lastDownload' = [name |-> "dynamics_import.xlsx", headers |-> DYNAMICS_HEADERS,
                        rows |-> transformedRows]
    /\ UNCHANGED <<callVars, parsedRows, fileMeta, weekStart, weekInfo, warningMessage,
                   transformedRows, viewMode, filtered, pending, selected, alerts, today>>

handleViewModeChange(mode) ==
    /\ viewMode' = mode
    /\ UNCHANGED <<callVars, parsedRows, fileMeta, weekStart, weekInfo, warningMessage,
                   transformedRows, filtered, pending, selected, alerts, lastDownload, today>>

\* the browser clock passes midnight
MidnightPasses ==
    /\ today < FirstToday + MaxDaysPassed
    /\ today' = today + 1
    /\ UNCHANGED <<callVars, parsedRows, fileMeta, weekStart, weekInfo, warningMessage,
                   transformedRows, viewMode, filtered, pending, selected, alerts, lastDownload>>

NextApp ==
    \/ \E file \in Files : handleFileChange(file)
    \/ \E file \in Files : handleFileChangeResume(file)
    \/ \E file \in Files : handleFileChangeCatch(file)
    \/ \E date \in PickerDates : handleDateChange(date)
    \/ handleTransform
    \/ handleDownloadCsv
    \/ handleDownloadXlsx
    \/ \E mode \in {"simplified", "raw"} : handleViewModeChange(mode)
    \/ MidnightPasses

SpecApp == InitApp /\ [][NextApp]_vars

\* C10: when no row of the file falls in the selected week, the conversion
\* still produces both rows and every hours and comment cell of both is ''.
C10_EmptyWeek ==
    (Len(transformedRows) > 0 /\ filtered = <<>>) =>
        /\ Len(transformedRows) = 2
        /\ \A i \in 0..6 : DayEmpty(transformedRows, i)

\* a file with rows was uploaded and none of its rows is in the week chosen
C10_Witness ==
    /\ Len(parsedRows) > 0
    /\ Len(transformedRows) = 2
    /\ filtered = <<>>
    /\ filterRowsToWeek(parsedRows, weekStart) = <<>>
    /\ \A i \in 0..6 : DayEmpty(transformedRows, i)

----------------------------------------------------------------------------
(* The current-week warning and the buttons *)

\* C21: the Transform button is enabled exactly when parsedRows is not
\* empty, whatever warningMessage is, and no step changes the transform
\* result while it is disabled; while a warning is shown the file has rows
\* and a week is selected, so that Transform gives two rows, which enable
\* both downloads.
C21_WarningNeverBlocks ==
    /\ [](/\ ~TransformDisabled <=> Len(parsedRows) > 0
          /\ warningMessage # Null =>
                /\ ~TransformDisabled
                /\ weekStart # Null /\ weekStart # EmptyStr
                /\ Len(transformToDynamics(filterRowsToWeek(parsedRows, weekStart),
                                           weekStart)) = 2)
    /\ [][(transformedRows' # transformedRows \/ filtered' # filtered) =>
              Len(parsedRows) > 0]_vars

\* the warning is shown, and the rows of the file were transformed and
\* downloaded
C21_Witness ==
    /\ warningMessage # Null
    /\ Len(parsedRows) > 0
    /\ Len(transformedRows) = 2
    /\ filtered = filterRowsToWeek(parsedRows, weekStart)
    /\ Len(filtered) > 0
    /\ lastDownload # Null
    /\ lastDownload.rows = transformedRows

\* C23: the two downloads can be started exactly when transformedRows is not
\* empty, and a Transform with a week selected leaves 2 rows in
\* transformedRows, whatever their day cells hold.
C23_ExportGate ==
    /\ [](/\ (ENABLED handleDownloadCsv) <=> Len(transformedRows) > 0
          /\ (ENABLED handleDownloadXlsx) <=> Len(transformedRows) > 0)
    /\ [][(weekStart # Null /\ handleTransform) => Len(transformedRows') = 2]_vars

\* a result without any hours was downloaded as a workbook
C23_Witness ==
    /\ Len(transformedRows) = 2
    /\ \A i \in 0..6 : DayEmpty(transformedRows, i)
    /\ lastDownload # Null
    /\ lastDownload.name = "dynamics_import.xlsx"
    /\ lastDownload.rows = transformedRows

\* C30: a step changes transformedRows only if it is a Transform with a
\* week selected, which stores the result for the rows and the week of that
\* moment and changes nothing else; a Transform without a week leaves it;
\* and a download hands over transformedRows as it is.
C30_OnlyTransformChangesResult ==
    [][/\ transformedRows' # transformedRows =>
             /\ weekStart # Null
             /\ transformedRows' =
                    transformToDynamics(filterRowsToWeek(parsedRows, weekStart), weekStart)
             /\ UNCHANGED <<parsedRows, fileMeta, weekStart, weekInfo, warningMessage,
                            viewMode, pending, selected, alerts, lastDownload, today>>
       /\ (weekStart = Null /\ handleTransform) => UNCHANGED transformedRows
       /\ lastDownload' # lastDownload =>
             /\ lastDownload'.rows = transformedRows
             /\ UNCHANGED transformedRows]_vars

\* a result was downloaded that is no longer the result for the rows and
\* the week on display
C30_Witness ==
    /\ Len(transformedRows) = 2
    /\ lastDownload # Null
    /\ lastDownload.rows = transformedRows
    /\ weekStart # Null
    /\ transformedRows # transformToDynamics(filterRowsToWeek(parsedRows, weekStart), weekStart)
    /\ \E i \in 0..6 : DayFilled(transformedRows, i)

----------------------------------------------------------------------------
(* readFile *)

MaxSheetRows == 3

\* the worksheet rows a file can hold: row 12 (the header row above the
\* data) and the rows after it
FirstSheetRow == 12

SheetRowNumbers == FirstSheetRow..(FirstSheetRow + MaxSheetRows - 1)

DateCells == {Null, EmptyStr, Str(<<"2", "7", ".", "1", "0", ".", "2", "5">>)}

StartCells == {Null, Str(<<"0", "9", ":", "0", "0">>)}

EndCells == {Null, EmptyStr, Rat(17, 24)}

\* what a row number holds: nothing (eachRow does not visit it) or a row
NoRow == [absent |-> TRUE]

SheetRowChoices ==
    {NoRow} \cup {[d |-> d, s |-> st, e |-> e] :
                    d \in DateCells, st \in StartCells, e \in EndCells}

\* the rows of the layout in ascending row number, the way eachRow visits them
RECURSIVE SheetOf(_, _)
SheetOf(layout, n) ==
    IF n > FirstSheetRow + MaxSheetRows - 1 THEN <<>>
    ELSE (IF layout[n] = NoRow THEN <<>>
          ELSE <<[rowNumber |-> n, d |-> layout[n].d, s |-> layout[n].s, e |-> layout[n].e]>>)
            \o SheetOf(layout, n + 1)

InitReadFile ==
    /\ pc = "call"
    /\ \E layout \in [SheetRowNumbers -> SheetRowChoices] :
          args = [fn |-> "readFile",
                  file |-> [name |-> "timer.xlsx", sheetName |-> "Sheet1",
                            corrupt |-> FALSE, sheet |-> SheetOf(layout, FirstSheetRow)]]
    /\ ret = NoRet
    /\ IdleApp

CallReadFile ==
    /\ pc = "call"
    /\ args.fn = "readFile"
    /\ ret' = readFile(args.file)
    /\ pc' = "returned"
    /\ UNCHANGED <<args, appVars>>

NextReadFile == CallReadFile

SpecReadFile == InitReadFile /\ [][NextReadFile]_vars

\* at least one of the three fixed cells of the row holds something
HasContent(r) == ~(r.d \in {Null, EmptyStr} /\ r.s \in {Null, EmptyStr} /\ r.e \in {Null, EmptyStr})

\* the rows of the sheet from row 13 on that hold something, in sheet order
ExtractedRows(sheet) == SelectSeq(sheet, LAMBDA r : r.rowNumber >= 13 /\ HasContent(r))

\* C11: readFile returns, in ascending row order, exactly one ParsedRow for
\* every row from row 13 on in which one of the three cells is non-empty; a
\* blank row is skipped without ending the scan, a missing cell gives null.
C11_ReadFileRows ==
    Returned("readFile") =>
        LET src == ExtractedRows(args.file.sheet)
        IN  /\ Len(ret.rows) = Len(src)
            /\ \A i \in 1..Len(src) :
                  /\ ret.rows[i].date = parseExcelDate(src[i].d)
                  /\ ret.rows[i].startTimeMinutes = parseExcelTime(src[i].s)
                  /\ ret.rows[i].endTimeMinutes = parseExcelTime(src[i].e)
                  /\ src[i].d \in {Null, EmptyStr} => ret.rows[i].date = Null
                  /\ src[i].s \in {Null, EmptyStr} => ret.rows[i].startTimeMinutes = Null
                  /\ src[i].e \in {Null, EmptyStr} => ret.rows[i].endTimeMinutes = Null

\* a header row in row 12, a blank row 13 and a row 14 holding only a date
C11_Witness ==
    /\ Returned("readFile")
    /\ Len(args.file.sheet) = 3
    /\ args.file.sheet[1].d # Null
    /\ ~HasContent(args.file.sheet[2])
    /\ args.file.sheet[3].d \notin {Null, EmptyStr}
    /\ args.file.sheet[3].s = Null /\ args.file.sheet[3].e = Null
    /\ Len(ret.rows) = 1
    /\ IsValidDate(ret.rows[1].date)
    /\ ret.rows[1].startTimeMinutes = Null

----------------------------------------------------------------------------
(* The selected week *)

\* the ISO date of a Monday
IsMondayIso(w) == IsIso(w) /\ isoWeekday(dayjs(w)) = 1

\* C12: in every reachable state of the application the selected weekStart
\* is unset (null) or the ISO date of a Monday, so the filter and the
\* transformation never run with a week start that is not a Monday.
C12_WeekStartMonday == weekStart = Null \/ IsMondayIso(weekStart)

\* the Sunday before BaseWeek was picked and Transform was clicked for its week
C12_Witness ==
    /\ weekStart = Iso(2025, 10, 20)
    /\ Len(parsedRows) > 0
    /\ Len(transformedRows) = 2
    /\ filtered = filterRowsToWeek(parsedRows, weekStart)

----------------------------------------------------------------------------
(* Uploads in flight *)

\* C13: file reads never interleave, so once every read has completed
\* parsedRows and fileMeta are those of the file selected last.
C13_LastSelectedWins ==
    (pending = {} /\ selected # Null /\ ~selected.corrupt) =>
        /\ parsedRows = readFileResult[selected].rows
        /\ fileMeta = [fileName |-> selected.name, sheetName |-> selected.sheetName,
                       rows |-> Len(readFileResult[selected].rows)]

\* C14: when reading the uploaded file throws, handleFileChange shows one
\* failure message and leaves parsedRows, fileMeta, weekStart, weekInfo,
\* warningMessage and transformedRows as they are: the step that ends the
\* read of an unreadable file adds one alert and changes none of them.
C14_FailedUploadKeepsState ==
    [][(\E f \in pending : f.corrupt /\ f \notin pending') =>
          /\ alerts' = alerts + 1
          /\ UNCHANGED <<parsedRows, fileMeta, weekStart, weekInfo, warningMessage,
                         transformedRows>>]_vars

\* an unreadable file was uploaded after a file was read and transformed:
\* one alert, and the rows, the week and the result of the first file remain
C14_Witness ==
    /\ alerts = 1
    /\ pending = {}
    /\ selected # Null /\ selected.corrupt
    /\ Len(parsedRows) > 0
    /\ weekStart # Null
    /\ Len(transformedRows) = 2

----------------------------------------------------------------------------
(* checkCurrentWeekInFile *)

MaxCheckRows == 3

\* the dates of the rows: none, an invalid one, and the minutes around the
\* two ends of BaseWeek
CheckDates ==
    {Null, InvalidDate}
        \cup {DateAt(DaysFromCivil(2025, 10, 27) * 1440 + off) :
                off \in {-1, 0, 3 * 1440 + 615, 7 * 1440 - 1, 7 * 1440}}

\* the values of dayjs(): Monday 00:00, Wednesday 10:30 and Sunday 23:59 of
\* BaseWeek, Monday 00:00 of the week after, Sunday 23:59 of the week before
CheckNows ==
    {DateAt(DaysFromCivil(2025, 10, 27) * 1440 + off) :
        off \in {-1, 0, 2 * 1440 + 630, 7 * 1440 - 1, 7 * 1440}}

InitCheckWeek ==
    /\ pc = "call"
    /\ \E n \in 0..MaxCheckRows : \E ds \in [1..n -> CheckDates] : \E now \in CheckNows :
          args = [fn |-> "checkCurrentWeekInFile",
                  rows |-> [i \in 1..n |-> [date |-> ds[i], startTimeMinutes |-> Num(540),
                                            endTimeMinutes |-> Num(1020)]],
                  now |-> now]
    /\ ret = NoRet
    /\ IdleApp

CallCheckCurrentWeekInFile ==
    /\ pc = "call"
    /\ args.fn = "checkCurrentWeekInFile"
    /\ ret' = checkCurrentWeekInFile(args.rows, args.now)
    /\ pc' = "returned"
    /\ UNCHANGED <<args, appVars>>

NextCheckWeek == CallCheckCurrentWeekInFile

SpecCheckWeek == InitCheckWeek /\ [][NextCheckWeek]_vars

\* local midnight of the Monday of the week of now, in minutes (1970-01-01
\* was a Thursday)
CurrentMondayMinute(now) ==
    LET day == now.time \div 1440
    IN  (day - ((day + 3) % 7)) * 1440

HasValidDate(r) == r.date # Null /\ r.date # InvalidDate

InCurrentWeek(r, now) ==
    /\ HasValidDate(r)
    /\ r.date.time >= CurrentMondayMinute(now)
    /\ r.date.time < CurrentMondayMinute(now) + 7 * 1440

\* C15: hasCurrentWeek is true exactly when some row has a valid date d with
\* currentMonday <= d < currentMonday + 7 days; the warning is non-null
\* exactly when there is a valid date and none lies in that window; without
\* any valid date the result is {false, null}; true and a warning never
\* come together.
C15_CurrentWeekCheck ==
    Returned("checkCurrentWeekInFile") =>
        LET rows   == args.rows
            any    == \E i \in 1..Len(rows) : HasValidDate(rows[i])
            inside == \E i \in 1..Len(rows) : InCurrentWeek(rows[i], args.now)
        IN  /\ ret.hasCurrentWeek = inside
            /\ (ret.warningMessage # Null) = (any /\ ~inside)
            /\ ~any => ret = [hasCurrentWeek |-> FALSE, warningMessage |-> Null]
            /\ ~(ret.hasCurrentWeek /\ ret.warningMessage # Null)

\* rows with a date one minute before the week of now and one at its end,
\* none inside: the warning is given
C15_Witness ==
    /\ Returned("checkCurrentWeekInFile")
    /\ Len(args.rows) = 3
    /\ \E i \in 1..3 : HasValidDate(args.rows[i])
                        /\ args.rows[i].date.time = CurrentMondayMinute(args.now) - 1
    /\ \E i \in 1..3 : HasValidDate(args.rows[i])
                        /\ args.rows[i].date.time = CurrentMondayMinute(args.now) + 7 * 1440
    /\ \E i \in 1..3 : ~HasValidDate(args.rows[i])
    /\ ret.hasCurrentWeek = FALSE
    /\ ret.warningMessage # Null

----------------------------------------------------------------------------
(* The dates of the parsed rows *)

\* C24: every date stored in a row of parsedRows that is not null is a
\* calendar date at local midnight, without a time of day.
C24_DatesAtMidnight ==
    \A i \in 1..Len(parsedRows) :
        parsedRows[i].date # Null =>
            /\ IsValidDate(parsedRows[i].date)
            /\ parsedRows[i].date.time % MinutesPerDay = 0

----------------------------------------------------------------------------
(* The week selected by an upload *)

\* the step in which the read of file f ends with the rows of f stored
UploadEnds(f) == f \in pending /\ ~f.corrupt /\ f \notin pending'

\* the valid dates of the rows, in minutes
ValidDateMinutes(rows) ==
    {rows[i].date.time : i \in {j \in 1..Len(rows) : HasValidDate(rows[j])}}

\* the Monday of the ISO week of a day (1970-01-01 was a Thursday)
MondayOfDay(day) == day - ((day + 3) % 7)

\* the week the claim gives an upload on the day todayDay
ExpectedWeek(rows, todayDay) ==
    LET dates    == ValidDateMinutes(rows)
        current  == MondayOfDay(todayDay)
        earliest == CHOOSE t \in dates : \A u \in dates : t <= u
    IN  IF \E t \in dates : t >= current * 1440 /\ t < (current + 7) * 1440
        THEN CivilFromDays(current)
        ELSE CivilFromDays(MondayOfDay(earliest \div 1440))

----------------------------------------------------------------------------
(* exportCsv *)

\* the characters of a string constant of the program
Characters(s) ==
    IF s = "" THEN <<>>
    ELSE IF s = "LineNum" THEN
        <<"L", "i", "n", "e", "N", "u", "m">>
    ELSE IF s = "ProjectDataAreaId" THEN
        <<"P", "r", "o", "j", "e", "c", "t", "D", "a", "t", "a", "A", "r",
        "e", "a", "I", "d">>
    ELSE IF s = "ProjId" THEN
        <<"P", "r", "o", "j", "I", "d">>
    ELSE IF s = "ACTIVITYNUMBER" THEN
        <<"A", "C", "T", "I", "V", "I", "T", "Y", "N", "U", "M", "B", "E",
        "R">>
    ELSE IF s = "HOURS" THEN
        <<"H", "O", "U", "R", "S">>
    ELSE IF s = "Hours2_" THEN
        <<"H", "o", "u", "r", "s", "2", "_">>
    ELSE IF s = "Hours3_" THEN
        <<"H", "o", "u", "r", "s", "3", "_">>
    ELSE IF s = "Hours4_" THEN
        <<"H", "o", "u", "r", "s", "4", "_">>
    ELSE IF s = "Hours5_" THEN
        <<"H", "o", "u", "r", "s", "5", "_">>
    ELSE IF s = "Hours6_" THEN
        <<"H", "o", "u", "r", "s", "6", "_">>
    ELSE IF s = "Hours7_" THEN
        <<"H", "o", "u", "r", "s", "7", "_">>
    ELSE IF s = "EXTERNALCOMMENTS" THEN
        <<"E", "X", "T", "E", "R", "N", "A", "L", "C", "O", "M", "M", "E",
        "N", "T", "S">>
    ELSE IF s = "ExternalComments2_" THEN
        <<"E", "x", "t", "e", "r", "n", "a", "l", "C", "o", "m", "m", "e",
        "n", "t", "s", "2", "_">>
    ELSE IF s = "ExternalComments3_" THEN
        <<"E", "x", "t", "e", "r", "n", "a", "l", "C", "o", "m", "m", "e",
        "n", "t", "s", "3", "_">>
    ELSE IF s = "ExternalComments4_" THEN
        <<"E", "x", "t", "e", "r", "n", "a", "l", "C", "o", "m", "m", "e",
        "n", "t", "s", "4", "_">>
    ELSE IF s = "ExternalComments5_" THEN
        <<"E", "x", "t", "e", "r", "n", "a", "l", "C", "o", "m", "m", "e",
        "n", "t", "s", "5", "_">>
    ELSE IF s = "ExternalComments6_" THEN
        <<"E", "x", "t", "e", "r", "n", "a", "l", "C", "o", "m", "m", "e",
        "n", "t", "s", "6", "_">>
    ELSE IF s = "ExternalComments7_" THEN
        <<"E", "x", "t", "e", "r", "n", "a", "l", "C", "o", "m", "m", "e",
        "n", "t", "s", "7", "_">>
    ELSE IF s = "110" THEN
        <<"1", "1", "0">>
    ELSE IF s = "11011127" THEN
        <<"1", "1", "0", "1", "1", "1", "2", "7">>
    ELSE IF s = "1.0000000000000000" THEN
        <<"1", ".", "0", "0", "0", "0", "0", "0", "0", "0", "0", "0", "0",
        "0", "0", "0", "0", "0">>
    ELSE IF s = "2.0000000000000000" THEN
        <<"2", ".", "0", "0", "0", "0", "0", "0", "0", "0", "0", "0", "0",
        "0", "0", "0", "0", "0">>
    ELSE IF s = "A110015929" THEN
        <<"A", "1", "1", "0", "0", "1", "5", "9", "2", "9">>
    ELSE IF s = "A110015932" THEN
        <<"A", "1", "1", "0", "0", "1", "5", "9", "3", "2">>
    ELSE IF s = "Development" THEN
        <<"D", "e", "v", "e", "l", "o", "p", "m", "e", "n", "t">>
    ELSE IF s = "Lunsj" THEN
        <<"L", "u", "n", "s", "j">>
    ELSE IF s = "NaN" THEN
        <<"N", "a", "N">>
    ELSE <<"?">>

DigitChar(d) == <<"0", "1", "2", "3", "4", "5", "6", "7", "8", "9">>[d + 1]

\* the decimal digits of a natural number
RECURSIVE IntDigits(_)
IntDigits(n) == IF n < 10 THEN <<DigitChar(n)>> ELSE IntDigits(n \div 10) \o <<DigitChar(n % 10)>>

\* String(n) for a number of at most two decimals: the shortest decimal text
NumberToString(n) ==
    IF n = NaN THEN Characters("NaN")
    ELSE LET cents == (Abs(n.num) * 100) \div n.den
             whole == cents \div 100
             frac  == cents % 100
         IN  (IF n.num < 0 THEN <<"-">> ELSE <<>>)
                \o IntDigits(whole)
                \o (IF frac = 0 THEN <<>>
                    ELSE IF frac % 10 = 0 THEN <<".", DigitChar(frac \div 10)>>
                    ELSE <<".", DigitChar(frac \div 10), DigitChar(frac % 10)>>)

\* String(value) for the string and number values of a row
StringOf(value) ==
    IF IsNum(value) \/ value = NaN THEN NumberToString(value)
    ELSE IF IsStr(value) THEN value.str
    ELSE Characters(value.text)

\* stringValue.replace(/"/g, '""')
RECURSIVE EscapeQuotes(_)
EscapeQuotes(cs) ==
    IF cs = <<>> THEN <<>>
    ELSE (IF Head(cs) = "\"" THEN <<"\"", "\"">> ELSE <<Head(cs)>>) \o EscapeQuotes(Tail(cs))

\* parts.join(sep)
RECURSIVE Join(_, _)
Join(parts, sep) ==
    IF parts = <<>> THEN <<>>
    ELSE IF Len(parts) = 1 THEN parts[1]
    ELSE parts[1] \o <<sep>> \o Join(Tail(parts), sep)

\* a field without the doubling of the quotes inside it
CsvValue_NoEscape(value) ==
    IF value = Null THEN <<>>
    ELSE <<"\"">> \o StringOf(value) \o <<"\"">>

\* the text exportCsv makes of one value of a data row
CsvValue(value) ==
    IF value = Null THEN <<>>
    ELSE <<"\"">> \o EscapeQuotes(StringOf(value)) \o <<"\"">>

\* exportCsv(rows, headers): the text and the type of the Blob
exportCsv(rows, headers) ==
    LET headerLine == Join([i \in 1..Len(headers) |->
                              <<"\"">> \o Characters(headers[i]) \o <<"\"">>], ",")
        DataLine(row) == Join([i \in 1..Len(headers) |->
                              CsvValue(IF headers[i] \in DOMAIN row THEN row[headers[i]]
                                       ELSE Null)], ",")
        csvLines == <<headerLine>> \o [k \in 1..Len(rows) |-> DataLine(rows[k])]
    IN  [type |-> "text/csv;charset=utf-8;", csv |-> Join(csvLines, "\n")]

\* comment texts with double quotes inside, put in place of a comment
QuotedComments == {<<"a", "\"", "b">>, <<"\"", "\"">>}

\* the totals of a day after the second loop of transformToDynamics
ExportTotals == {Num(0), Rat(1, 50), Num(8), Rat(1498, 100)}

\* a week with work on Monday to Wednesday only
WeekTotals(worked) == [i \in 0..6 |-> IF i \in DOMAIN worked THEN worked[i] ELSE Num(0)]

\* the two rows transformToDynamics builds from the totals, as they are
\* (comment <<>>) or with the Monday comment of the work row replaced
ExportInputRows(totalsByDay, comment) ==
    IF comment = <<>> THEN <<Row1(totalsByDay), Row2(totalsByDay)>>
    ELSE <<[Row1(totalsByDay) EXCEPT !["EXTERNALCOMMENTS"] = Str(comment)],
           Row2(totalsByDay)>>

InitExportCsv ==
    /\ pc = "call"
    /\ \E worked \in [0..2 -> ExportTotals] :
       \E comment \in QuotedComments \cup {<<>>} :
          args = [fn |-> "exportCsv", rows |-> ExportInputRows(WeekTotals(worked), comment),
                  headers |-> DYNAMICS_HEADERS]
    /\ ret = NoRet
    /\ IdleApp

CallExportCsv ==
    /\ pc = "call"
    /\ args.fn = "exportCsv"
    /\ ret' = exportCsv(args.rows, args.headers)
    /\ pc' = "returned"
    /\ UNCHANGED <<args, appVars>>

NextExportCsv == CallExportCsv

SpecExportCsv == InitExportCsv /\ [][NextExportCsv]_vars

\* the pieces of cs between the occurrences of the character sep
Pieces(cs, sep) ==
    LET P == {i \in 1..Len(cs) : cs[i] = sep}
        n == Cardinality(P)
        Nth(k) == IF k = 0 THEN 0
                  ELSE IF k = n + 1 THEN Len(cs) + 1
                  ELSE CHOOSE p \in P : Cardinality({q \in P : q < p}) = k - 1
    IN  [k \in 1..(n + 1) |-> SubSeq(cs, Nth(k - 1) + 1, Nth(k) - 1)]

\* cs with every pair of double quotes read as one; a line feed marks a
\* double quote that stands alone
RECURSIVE Undoubled(_)
Undoubled(cs) ==
    IF cs = <<>> THEN <<>>
    ELSE IF Head(cs) # "\"" THEN <<Head(cs)>> \o Undoubled(Tail(cs))
    ELSE IF Len(cs) >= 2 /\ cs[2] = "\"" THEN <<"\"">> \o Undoubled(Tail(Tail(cs)))
    ELSE <<"\n">>

\* the field is the text wrapped in double quotes, the quotes inside doubled
IsQuoted(field, text) ==
    /\ Len(field) >= 2
    /\ field[1] = "\"" /\ field[Len(field)] = "\""
    /\ Undoubled(SubSeq(field, 2, Len(field) - 1)) = text

\* C17: exportCsv of the two Dynamics rows and DYNAMICS_HEADERS gives the
\* line of the 18 header names in header order, then exactly 2 data lines
\* (work, then lunch) of 18 comma-separated fields in header order, every
\* field in double quotes with the double quotes inside it doubled.
C17_CsvText ==
    Returned("exportCsv") =>
        LET lines == Pieces(ret.csv, "\n")
        IN  /\ Len(lines) = 3
            /\ LET names == Pieces(lines[1], ",")
               IN  /\ Len(names) = 18
                   /\ \A i \in 1..18 :
                         IsQuoted(names[i], Characters(DYNAMICS_HEADERS[i]))
            /\ \A k \in 1..2 :
                  LET fields == Pieces(lines[k + 1], ",")
                  IN  /\ Len(fields) = 18
                      /\ \A i \in 1..18 :
                            IsQuoted(fields[i], StringOf(args.rows[k][DYNAMICS_HEADERS[i]]))
            /\ IsQuoted(Pieces(lines[2], ",")[1], Characters("1.0000000000000000"))
            /\ IsQuoted(Pieces(lines[3], ",")[1], Characters("2.0000000000000000"))

\* Monday holds 14.98 hours and a comment with a double quote inside
C17_Witness ==
    /\ Returned("exportCsv")
    /\ args.rows[1]["HOURS"] = Rat(1498, 100)
    /\ args.rows[1]["EXTERNALCOMMENTS"] = Str(<<"a", "\"", "b">>)
    /\ args.rows[2]["HOURS"] = Rat(1, 2)
    /\ Pieces(Pieces(ret.csv, "\n")[2], ",")[5] = <<"\"", "1", "4", ".", "9", "8", "\"">>
    /\ Pieces(Pieces(ret.csv, "\n")[2], ",")[12] = <<"\"", "a", "\"", "\"", "b", "\"">>
    /\ Pieces(Pieces(ret.csv, "\n")[3], ",")[5] = <<"\"", "0", ".", "5", "\"">>

====
